---- MODULE Spec2Model ----
(***************************************************************************)
(* Heading transformation and hierarchy validation engine of the           *)
(* heading-helper plugin: the line parser (src/parser.ts), the level state *)
(* machine, the batch coordinator (src/heading-operations.ts) and the      *)
(* single-line hierarchy checker (src/hierarchy-checker.ts).               *)
(*                                                                         *)
(* A line of text is a tuple of one-character strings, a document is a     *)
(* function from 0-indexed line numbers to lines.                          *)
(***************************************************************************)
EXTENDS Integers, Sequences, FiniteSets, TLC

VARIABLES
    doc,              \* the editor buffer: [0..NumLines-1 -> line text]
    selections,       \* editor.listSelections(): sequence of [anchor, head]
    settings,         \* HeadingHelperSettings given to the constructor
    app,              \* TRUE iff HeadingOperations was constructed with an App
    tasks,            \* FIFO of continuations suspended at an await
    lastWarningType,  \* HierarchyChecker.lastWarningType (<<>> for the empty string, or a key)
    lastWarningTime,  \* HierarchyChecker.lastWarningTime
    now,              \* Date.now()
    log               \* history: the operations issued since the engine was last idle

vars == <<doc, selections, settings, app, tasks, lastWarningType, lastWarningTime, now, log>>

-----------------------------------------------------------------------------
(* Bounds of the model *)

NumLines == 3

\* operations that may be suspended at the same time when a caller drops promises
MaxInFlight == 2

\* commands issued one after the other on the same selection
MaxOps == 8

\* length of the line texts given to the parser on its own
MaxLen == 6

\* Line-number operations issued one after the other on one engine
MaxLineOps == 3


(* enum HeadingLevel *)
Paragraph == 0
H1 == 1
H2 == 2
H3 == 3
H4 == 4
H5 == 5
H6 == 6

HeadingLevel == Paragraph..H6

LineNums == 0..(NumLines - 1)

-----------------------------------------------------------------------------
(* Text helpers *)

\* The element of a one-element set: {F(x) : x \in {e}} computes e once
Only(S) == CHOOSE x \in S : TRUE

IsSpace(c) == c = " "

\* '#'.repeat(n)
Hashes(n) == [i \in 1..n |-> "#"]

\* Length of the run of whitespace, or of '#', that starts at position i (1-based)
RECURSIVE WsRun(_, _)
WsRun(t, i) == IF i <= Len(t) /\ IsSpace(t[i]) THEN 1 + WsRun(t, i + 1) ELSE 0

RECURSIVE HashRun(_, _)
HashRun(t, i) == IF i <= Len(t) /\ t[i] = "#" THEN 1 + HashRun(t, i + 1) ELSE 0

\* text.slice(0, k) where k is the end of the last non-whitespace character
TrimEnd(t) ==
    SubSeq(t, 1, CHOOSE k \in 0..Len(t) :
                    /\ \A j \in (k + 1)..Len(t) : IsSpace(t[j])
                    /\ (k = 0 \/ ~IsSpace(t[k])))

TrimStart(t) == SubSeq(t, WsRun(t, 1) + 1, Len(t))

\* String.prototype.trim()
Trim(t) == TrimStart(TrimEnd(t))

-----------------------------------------------------------------------------
(* MarkdownParser *)

\* LINE_PATTERN = /^(\s*)([-*+]\s+)?(?:(#+)(?=\s))?\s*(.*?)$/
\* Every quantifier's greedy first choice leads to a match (the tail \s*(.*?)$
\* accepts any rest), so the groups are the greedy ones; (#+)(?=\s) fails as a
\* whole when the '#' run is not followed by whitespace.

\* ([-*+]\s+)? at position p: the length it matches
ListMarkerLen(text, p) ==
    IF p <= Len(text) /\ text[p] \in {"-", "*", "+"} /\ WsRun(text, p + 1) >= 1
    THEN 1 + WsRun(text, p + 1)
    ELSE 0

\* (?:(#+)(?=\s))? at position q: the length it matches
HeadingMarkerLen(text, q) ==
    IF /\ HashRun(text, q) >= 1
       /\ q + HashRun(text, q) <= Len(text)
       /\ IsSpace(text[q + HashRun(text, q)])
    THEN HashRun(text, q)
    ELSE 0

\* The groups, given where the list marker (p), the heading marker (q) and the
\* rest (r) start
LineGroups(text, p, q, r) ==
    [g1 |-> SubSeq(text, 1, p - 1),
     g2 |-> SubSeq(text, p, q - 1),
     g3 |-> SubSeq(text, q, r - 1),
     g4 |-> SubSeq(text, r + WsRun(text, r), Len(text))]

LineMatchFromList(text, p, q) == LineGroups(text, p, q, q + HeadingMarkerLen(text, q))

LineMatchFromIndent(text, p) == LineMatchFromList(text, p, p + ListMarkerLen(text, p))

\* text.match(LINE_PATTERN)
LineMatch(text) == LineMatchFromIndent(text, WsRun(text, 1) + 1)

\* A parser that reads a '#' run of more than six as a heading of level H6
parsedLineCapsAtH6(text, match) ==
    [indent |-> match.g1, listMarker |-> match.g2, headingMarker |-> match.g3,
     content |-> Trim(match.g4),
     level |-> IF Len(match.g3) > 6 THEN H6
               ELSE IF Len(match.g3) > 0 THEN Len(match.g3) ELSE Paragraph]

\* parseLine, lines 23-41, once the match is known
parsedLine(text, match) ==
    IF Len(match.g3) > 6
    THEN [indent |-> <<>>, listMarker |-> <<>>, headingMarker |-> <<>>,
          content |-> text, level |-> Paragraph]
    ELSE [indent |-> match.g1, listMarker |-> match.g2, headingMarker |-> match.g3,
          content |-> Trim(match.g4),
          level |-> IF Len(match.g3) > 0 THEN Len(match.g3) ELSE Paragraph]

\* MarkdownParser.parseLine computed from the text
parseText(text) == parsedLine(text, LineMatch(text))

\* A heading marker written without the space after it
lineToTextNoSpace(parsed, newLevel) ==
    parsed.indent \o parsed.listMarker \o Hashes(newLevel) \o parsed.content

\* A conversion to Paragraph that leaves the marker the line had
lineToTextKeepsMarker(parsed, newLevel) ==
    IF newLevel = Paragraph
    THEN parsed.indent \o parsed.listMarker \o parsed.headingMarker \o parsed.content
    ELSE parsed.indent \o parsed.listMarker \o Hashes(newLevel) \o <<" ">> \o parsed.content

\* A line rebuilt without its list marker
lineToTextDropsList(parsed, newLevel) ==
    parsed.indent \o (IF newLevel = Paragraph THEN <<>> ELSE Hashes(newLevel) \o <<" ">>)
                  \o parsed.content

lineToText(parsed, newLevel) ==
    LET headingMarker == IF newLevel = Paragraph THEN <<>> ELSE Hashes(newLevel) \o <<" ">>
    IN parsed.indent \o parsed.listMarker \o headingMarker \o parsed.content

\* A ring: promotion of H1 gives Paragraph
cycleHeadingRing(currentLevel, direction, wrapAfterH6) ==
    IF currentLevel = Paragraph THEN Paragraph
    ELSE IF direction = "up" THEN currentLevel - 1
    ELSE IF currentLevel = H6 THEN (IF wrapAfterH6 THEN Paragraph ELSE H6)
    ELSE currentLevel + 1

\* A cycle that wraps H6 to Paragraph whatever wrapAfterH6 says
cycleHeadingAlwaysWraps(currentLevel, direction, wrapAfterH6) ==
    IF currentLevel = Paragraph THEN Paragraph
    ELSE IF direction = "up" THEN (IF currentLevel = H1 THEN H1 ELSE currentLevel - 1)
    ELSE IF currentLevel = H6 THEN Paragraph ELSE currentLevel + 1

cycleHeading(currentLevel, direction, wrapAfterH6) ==
    IF currentLevel = Paragraph THEN Paragraph
    ELSE CASE direction = "up" ->
                IF currentLevel = H1 THEN H1 ELSE currentLevel - 1
           [] direction = "down" ->
                IF currentLevel = H6
                THEN (IF wrapAfterH6 THEN Paragraph ELSE H6)
                ELSE currentLevel + 1
           [] direction = "cycle" ->
                IF currentLevel = H6
                THEN (IF wrapAfterH6 THEN Paragraph ELSE H6)
                ELSE currentLevel + 1
           [] OTHER -> currentLevel

-----------------------------------------------------------------------------
(* The lines of the bounded documents *)

\* `#`-run of the level, one space, the content "a"
Canonical(level) == IF level = Paragraph THEN <<"a">> ELSE Hashes(level) \o <<" ", "a">>

\* A line whose whitespace the formatter normalises, and a heading whose content
\* itself starts with a heading marker
LooseH2 == <<"#", "#", " ", " ", "a", " ">>
NestedH6 == Hashes(6) \o <<" ", "#", " ", "a">>

LineTexts == {Canonical(l) : l \in HeadingLevel \ {H4}} \cup {LooseH2, NestedH6}

\* The lines a document holds at first or after one transformation
KnownTexts ==
    LineTexts \cup {lineToText(parseText(t), l) : t \in LineTexts, l \in HeadingLevel}

\* parseText of the known lines, computed once
ParsedTexts == [t \in KnownTexts |-> parseText(t)]

\* MarkdownParser.parseLine: looked up for a known line, computed for any other
parseLine(text) == IF text \in KnownTexts THEN ParsedTexts[text] ELSE parseText(text)

-----------------------------------------------------------------------------
(* Editor: the host's line-indexed buffer *)

getLine(d, line) == d[line]

\* editor.replaceRange(text, {line, ch: from}, {line, ch: to}) with a text that
\* holds no line break: the characters [from, to) of the line are replaced.
replaceRange(d, text, line, chFrom, chTo) ==
    [d EXCEPT ![line] = SubSeq(@, 1, chFrom) \o text \o SubSeq(@, chTo + 1, Len(@))]


-----------------------------------------------------------------------------
(* HeadingOperations: helpers *)

transformLine(d, lineNumber, newLevel) ==
    replaceRange(d, lineToText(parseLine(getLine(d, lineNumber)), newLevel),
                 lineNumber, 0, Len(getLine(d, lineNumber)))

\* No constraint applied
applyLevelConstraintsNone(st, level) == level

\* The two limits taken for each other
applyLevelConstraintsSwapped(st, level) ==
    IF level = Paragraph THEN level
    ELSE IF level < st.minLevel THEN st.maxLevel
    ELSE IF level > st.maxLevel THEN st.minLevel
    ELSE level

applyLevelConstraints(st, level) ==
    IF level = Paragraph THEN level
    ELSE IF level < st.minLevel THEN st.minLevel
    ELSE IF level > st.maxLevel THEN st.maxLevel
    ELSE level


startLineOf(selection) == IF selection.anchor <= selection.head THEN selection.anchor ELSE selection.head
endLineOf(selection)   == IF selection.anchor >= selection.head THEN selection.anchor ELSE selection.head

\* processSelection, lines 77-88: what one line adds to the plan
directionalStep(st, lineNum, level, constrainedLevel) ==
    IF level # Paragraph /\ constrainedLevel # level
    THEN << [lineNum |-> lineNum, currentLevel |-> level, targetLevel |-> constrainedLevel] >>
    ELSE <<>>

\* processSelection, lines 70-89: the planned transformations, in line order
RECURSIVE collectDirectional(_, _, _, _, _)
collectDirectional(st, d, lineNum, endLine, direction) ==
    IF lineNum > endLine THEN <<>>
    ELSE Only({ directionalStep(st, lineNum, level,
                    applyLevelConstraints(st, cycleHeading(level, direction, st.wrapAfterH6)))
                : level \in {parseLine(getLine(d, lineNum)).level} })
         \o collectDirectional(st, d, lineNum + 1, endLine, direction)

\* isHeading || isH6ToParagraph (lines 35-37 and 108-110)
canTransform(level, targetLevel) ==
    level # Paragraph \/ (targetLevel = Paragraph /\ level = H6)

\* A plan that keeps the lines already at the target level
withLevelStepKeepsNoOps(lineNum, level, targetLevel) ==
    IF canTransform(level, targetLevel)
    THEN << [lineNum |-> lineNum, currentLevel |-> level, targetLevel |-> targetLevel] >>
    ELSE <<>>

\* processSelectionWithLevel, lines 108-118: what one line adds to the plan
withLevelStep(lineNum, level, targetLevel) ==
    IF canTransform(level, targetLevel) /\ level # targetLevel
    THEN << [lineNum |-> lineNum, currentLevel |-> level, targetLevel |-> targetLevel] >>
    ELSE <<>>

\* A plan that takes every line of the range whose level is not the target,
\* paragraphs included
collectWithLevelAnyLine(d, lineNum, endLine, targetLevel) ==
    SelectSeq([i \in 1..(endLine - lineNum + 1) |->
                  [lineNum |-> lineNum + i - 1,
                   currentLevel |-> parseLine(getLine(d, lineNum + i - 1)).level,
                   targetLevel |-> targetLevel]],
              LAMBDA t : t.currentLevel # targetLevel)

\* processSelectionWithLevel, lines 101-119
RECURSIVE collectWithLevel(_, _, _, _)
collectWithLevel(d, lineNum, endLine, targetLevel) ==
    IF lineNum > endLine THEN <<>>
    ELSE withLevelStep(lineNum, parseLine(getLine(d, lineNum)).level, targetLevel)
         \o collectWithLevel(d, lineNum + 1, endLine, targetLevel)

\* executeBatchTransformation, lines 137-141
originalStatesOf(d, transformations) ==
    [i \in 1..Len(transformations) |->
        [lineNum |-> transformations[i].lineNum,
         originalText |-> getLine(d, transformations[i].lineNum),
         originalLevel |-> transformations[i].currentLevel]]

\* executeBatchTransformation, lines 145-156
originalLevelsInSelectionMap(d, originalStates, selectionStartLine, selectionEndLine) ==
    [i \in selectionStartLine..selectionEndLine |->
        IF \E k \in 1..Len(originalStates) : originalStates[k].lineNum = i
        THEN LET k == CHOOSE k \in 1..Len(originalStates) :
                        /\ originalStates[k].lineNum = i
                        /\ \A j \in 1..(k - 1) : originalStates[j].lineNum # i
             IN originalStates[k].originalLevel
        ELSE parseLine(getLine(d, i)).level]

\* executeBatchTransformation, lines 159-161
RECURSIVE applyAll(_, _, _)
applyAll(d, transformations, k) ==
    IF k > Len(transformations) THEN d
    ELSE applyAll(transformLine(d, transformations[k].lineNum, transformations[k].targetLevel),
                  transformations, k + 1)

\* A revert that rewrites each line from its parsed original instead of the
\* snapshot text: the level comes back, the spacing does not
revertAllReformatted(d, originalStates, k) ==
    [l \in DOMAIN d |->
        IF \E j \in k..Len(originalStates) : originalStates[j].lineNum = l
        THEN LET j == CHOOSE j \in k..Len(originalStates) : originalStates[j].lineNum = l
             IN lineToText(parseLine(originalStates[j].originalText),
                           originalStates[j].originalLevel)
        ELSE d[l]]

\* executeBatchTransformation, lines 174-180
RECURSIVE revertAll(_, _, _)
revertAll(d, originalStates, k) ==
    IF k > Len(originalStates) THEN d
    ELSE revertAll(replaceRange(d, originalStates[k].originalText, originalStates[k].lineNum,
                                0, Len(getLine(d, originalStates[k].lineNum))),
                   originalStates, k + 1)

getHeadingLevelsInRange(d, minLine, maxLine) ==
    {parseLine(getLine(d, i)).level : i \in minLine..maxLine} \ {Paragraph}

\* getHeadingLevel, lines 574-578: the levels the call can return. The argument
\* goes to editor.getLine as it is; for a line the buffer does not hold, the call
\* returns no level
getHeadingLevel(d, lineNumber) ==
    IF lineNumber \in DOMAIN d THEN {parseLine(getLine(d, lineNumber)).level} ELSE {}

-----------------------------------------------------------------------------
(* HeadingOperations.analyzeBatchTransformation *)

\* The Notice texts, kept apart by an id and the levels interpolated into them
MsgH6ToParagraph == [id |-> "Cannot demote H6 to Paragraph", a |-> 0, b |-> 0]
MsgOrphan(lvl, orphan) == [id |-> "may orphan", a |-> lvl, b |-> orphan]
MsgPromoteH1 == [id |-> "Cannot promote to H1", a |-> 0, b |-> 0]
MsgH5ToH6 == [id |-> "Cannot demote H5 to H6", a |-> 0, b |-> 0]
MsgH1AndH2 == [id |-> "now contains both H1 and H2", a |-> 0, b |-> 0]
MsgH5AndH6 == [id |-> "contains H5 and H6", a |-> 0, b |-> 0]

Issue(type, message, t) ==
    [type |-> type, message |-> message, currentLevel |-> t.currentLevel,
     targetLevel |-> t.targetLevel, lineNumber |-> t.lineNum + 1]

\* issues.push(...) for each t of a filtered list, in order; F(t) is the
\* sequence of no or one issue pushed for t
issuesFor(ts, F(_)) ==
    LET pushed == SelectSeq([k \in 1..Len(ts) |-> F(ts[k])], LAMBDA e : Len(e) > 0)
    IN [k \in 1..Len(pushed) |-> pushed[k][1]]

\* transformations.find(pred) || transformations[0]
findOrFirst(ts, P(_)) ==
    IF \E k \in 1..Len(ts) : P(ts[k])
    THEN ts[CHOOSE k \in 1..Len(ts) : P(ts[k]) /\ \A j \in 1..(k - 1) : ~P(ts[j])]
    ELSE ts[1]

\* Rule 1, lines 272-286
rule1Issues(st, transformations) ==
    LET h6ToPara == SelectSeq(transformations,
                        LAMBDA t : t.currentLevel = H6 /\ t.targetLevel = Paragraph)
    IN IF Len(h6ToPara) > 0 /\ ~st.wrapAfterH6
       THEN issuesFor(h6ToPara, LAMBDA t : << Issue("demotion_blocked", MsgH6ToParagraph, t) >>)
       ELSE <<>>

\* Rule 2, lines 288-319
rule2Issues(d, transformations, levelsAfter, selStart, selEnd) ==
    LET higherToPara == SelectSeq(transformations,
                            LAMBDA t : /\ t.targetLevel = Paragraph
                                       /\ t.currentLevel >= H1 /\ t.currentLevel <= H5)
        orphans(t) == {c \in (t.currentLevel + 1)..H6 :
                          /\ c \in levelsAfter
                          /\ \E lineIdx \in selStart..selEnd :
                                 parseLine(getLine(d, lineIdx)).level = c}
        first(S) == CHOOSE c \in S : \A o \in S : c <= o
    IN issuesFor(higherToPara,
           LAMBDA t : IF orphans(t) # {}
                      THEN << Issue("hierarchy_break",
                                    MsgOrphan(t.currentLevel, first(orphans(t))), t) >>
                      ELSE <<>>)

\* Rule 3 left out
rule3IssuesNone(transformations, origMap, selStart, selEnd) == <<>>

\* Rule 3, lines 321-342
rule3Issues(transformations, origMap, selStart, selEnd) ==
    LET promotionsToH1 == SelectSeq(transformations,
                              LAMBDA t : t.targetLevel = H1 /\ t.currentLevel > H1)
        preExistingH1 == \E i \in selStart..selEnd : origMap[i] = H1
    IN IF Len(promotionsToH1) > 0 /\ preExistingH1
       THEN issuesFor(promotionsToH1, LAMBDA t : << Issue("promotion_blocked", MsgPromoteH1, t) >>)
       ELSE <<>>

\* An engine without rule 4
rule4IssuesNone(st, transformations, origMap, selStart, selEnd) == <<>>

\* Rule 4, lines 344-367
rule4Issues(st, transformations, origMap, selStart, selEnd) ==
    LET demotions == SelectSeq(transformations,
                         LAMBDA t : t.currentLevel = H5 /\ t.targetLevel = H6)
        preExistingH6 == \E i \in selStart..selEnd : origMap[i] = H6
    IN IF ~st.wrapAfterH6 /\ Len(demotions) > 0 /\ preExistingH6
       THEN issuesFor(demotions, LAMBDA t : << Issue("demotion_blocked", MsgH5ToH6, t) >>)
       ELSE <<>>

\* General warning, lines 369-385
warnH1H2(transformations, levelsAfter, issues) ==
    LET isAlreadyBlockedForH1Promotion ==
            \E k \in 1..Len(issues) :
                issues[k].type = "promotion_blocked" /\ issues[k].message.id = MsgPromoteH1.id
        repTrans == findOrFirst(transformations,
                        LAMBDA t : t.targetLevel = H1 \/ t.targetLevel = H2)
    IN IF H1 \in levelsAfter /\ H2 \in levelsAfter /\ ~isAlreadyBlockedForH1Promotion
       THEN << Issue("general_warning", MsgH1AndH2, repTrans) >>
       ELSE <<>>

\* The H5/H6 advisory raised whatever wrapAfterH6 says
warnH5H6IgnoresWrap(st, transformations, levelsAfter, issues) ==
    LET isAlreadyBlocked ==
            \E k \in 1..Len(issues) :
                /\ issues[k].type = "demotion_blocked"
                /\ issues[k].message.id \in {MsgH5ToH6.id, MsgH6ToParagraph.id}
        repTrans == findOrFirst(transformations,
                        LAMBDA t : t.targetLevel = H5 \/ t.targetLevel = H6)
    IN IF H5 \in levelsAfter /\ H6 \in levelsAfter /\ ~isAlreadyBlocked
       THEN << Issue("general_warning", MsgH5AndH6, repTrans) >>
       ELSE <<>>

\* General warning, lines 387-404
warnH5H6(st, transformations, levelsAfter, issues) ==
    LET isAlreadyBlocked ==
            \E k \in 1..Len(issues) :
                /\ issues[k].type = "demotion_blocked"
                /\ issues[k].message.id \in {MsgH5ToH6.id, MsgH6ToParagraph.id}
        repTrans == findOrFirst(transformations,
                        LAMBDA t : t.targetLevel = H5 \/ t.targetLevel = H6)
    IN IF H5 \in levelsAfter /\ H6 \in levelsAfter /\ ~st.wrapAfterH6 /\ ~isAlreadyBlocked
       THEN << Issue("general_warning", MsgH5AndH6, repTrans) >>
       ELSE <<>>

\* A deduplication that returns the issues in the opposite order
uniqueIssuesReversed(issues) ==
    LET kept == SelectSeq([k \in 1..Len(issues) |->
                              [issue |-> issues[k],
                               first |-> \A j \in 1..(k - 1) :
                                            ~(/\ issues[j].lineNumber = issues[k].lineNumber
                                              /\ issues[j].message = issues[k].message)]],
                          LAMBDA e : e.first)
    IN [k \in 1..Len(kept) |-> kept[Len(kept) + 1 - k]]

\* Deduplication by `${lineNumber}-${message}`, lines 406-416
uniqueIssues(issues) ==
    SelectSeq([k \in 1..Len(issues) |->
                  [issue |-> issues[k],
                   first |-> \A j \in 1..(k - 1) :
                                ~(/\ issues[j].lineNumber = issues[k].lineNumber
                                  /\ issues[j].message = issues[k].message)]],
              LAMBDA e : e.first)

\* d is the buffer after the apply step
analyzeBatchTransformation(st, d, transformations, origMap, selStart, selEnd) ==
    IF Len(transformations) = 0 THEN <<>>
    ELSE
    LET lineNumsOf == {transformations[k].lineNum : k \in 1..Len(transformations)}
        minTransformedLineNum == CHOOSE m \in lineNumsOf : \A o \in lineNumsOf : m <= o
        maxTransformedLineNum == CHOOSE m \in lineNumsOf : \A o \in lineNumsOf : m >= o
    IN Only({
         Only({
           Only({
             Only({
               Only({ [k \in 1..Len(u) |-> u[k].issue] : u \in {uniqueIssues(i6)} })
               : i6 \in {i5 \o warnH5H6(st, transformations,
                                         selectionLevelsAfterTransform, i5)} })
             : i5 \in {i4 \o warnH1H2(transformations, selectionLevelsAfterTransform, i4)} })
           : i4 \in {rule1Issues(st, transformations)
                      \o rule2Issues(d, transformations, selectionLevelsAfterTransform,
                                     selStart, selEnd)
                      \o rule3Issues(transformations, origMap, selStart, selEnd)
                      \o rule4Issues(st, transformations, origMap, selStart, selEnd)} })
         : selectionLevelsAfterTransform \in
               {getHeadingLevelsInRange(d, minTransformedLineNum, maxTransformedLineNum)} })

\* The blocking types with the advisory type counted among them
BlockingTypesWithGeneral ==
    {"hierarchy_break", "demotion_blocked", "promotion_blocked", "general_warning"}

BlockingTypes == {"hierarchy_break", "demotion_blocked", "promotion_blocked"}

\* The decision with 'set' treated like a directional operation
checkBatchIssuesSetBlocked(st, transformations, operationType, batchIssues) ==
    IF Len(batchIssues) = 0
    THEN [shouldContinue |-> TRUE, notices |-> <<>>, issues |-> <<>>]
    ELSE [shouldContinue |->
              ~(batchIssues[1].type \in {"hierarchy_break", "demotion_blocked",
                                          "promotion_blocked"}
                /\ ~st.allowHierarchyOverride),
          notices |-> << [type |-> batchIssues[1].type,
                          message |-> batchIssues[1].message] >>,
          issues |-> batchIssues]

\* The decision with one Notice for every issue
checkBatchIssuesNoticePerIssue(st, transformations, operationType, batchIssues) ==
    [shouldContinue |->
         \/ Len(batchIssues) = 0
         \/ operationType = "set"
         \/ ~(batchIssues[1].type \in {"hierarchy_break", "demotion_blocked",
                                        "promotion_blocked"}
              /\ ~st.allowHierarchyOverride),
     notices |-> [k \in 1..Len(batchIssues) |->
                     [type |-> batchIssues[k].type, message |-> batchIssues[k].message]],
     issues |-> batchIssues]

\* checkBatchHierarchy, lines 208-242: the decision once the issues are known
checkBatchIssues(st, transformations, operationType, batchIssues) ==
    IF Len(batchIssues) = 0
    THEN [shouldContinue |-> TRUE, notices |-> <<>>, issues |-> <<>>]
    ELSE
       LET primaryIssue == batchIssues[1]
           representativeTransformation ==
               findOrFirst(transformations,
                   LAMBDA t : \/ (/\ t.currentLevel = primaryIssue.currentLevel
                                  /\ t.targetLevel = primaryIssue.targetLevel)
                              \/ t.lineNum + 1 = primaryIssue.lineNumber)
           warningDetails ==
               [type |-> primaryIssue.type,
                currentLevel |-> representativeTransformation.currentLevel,
                targetLevel |-> representativeTransformation.targetLevel,
                lineNumber |-> representativeTransformation.lineNum + 1,
                message |-> primaryIssue.message]
           isBlockingWarning == warningDetails.type \in BlockingTypes
       IN [shouldContinue |->
               IF operationType = "set" THEN TRUE
               ELSE ~(isBlockingWarning /\ ~st.allowHierarchyOverride),
           notices |-> << [type |-> warningDetails.type, message |-> warningDetails.message] >>,
           issues |-> batchIssues]

\* checkBatchHierarchy, lines 188-243: whether the batch may stay applied, and
\* the Notice shown (a sequence holding no or one notice)
checkBatchHierarchy(st, d, transformations, origMap, operationType, selStart, selEnd) ==
    IF ~st.checkHierarchy \/ Len(transformations) = 0
    THEN [shouldContinue |-> TRUE, notices |-> <<>>, issues |-> <<>>]
    ELSE
    Only({ checkBatchIssues(st, transformations, operationType, batchIssues) :
           batchIssues \in {analyzeBatchTransformation(st, d, transformations, origMap,
                                                       selStart, selEnd)} })

-----------------------------------------------------------------------------
(* HierarchyChecker: the single-line path *)

DEBOUNCE_TIME == 1500

\* Date.now() when the first command runs
StartTime == 2 * DEBOUNCE_TIME

NoLine == 0   \* excludeLineNumber === undefined (line numbers are 1-based here)

NoWarning == [type |-> "none"]

\* getHeadingLinesFromSelection followed by getLevelsSet
levelsFromSelection(d, sels, excludeLineNumber) ==
    IF Len(sels) = 0 THEN {}
    ELSE LET selection == sels[1]
             startLine == startLineOf(selection)
             endLine   == endLineOf(selection)
         IN {parseLine(getLine(d, i)).level :
                i \in {j \in startLine..endLine :
                          ~(excludeLineNumber # NoLine /\ j = excludeLineNumber - 1)}}
            \ {Paragraph}

checkPromotionRules(currentLevel, targetLevel, lineNumber, otherExistingLevelsSet) ==
    IF targetLevel = H1 /\ currentLevel # H1 /\ H1 \in otherExistingLevelsSet
    THEN [type |-> "hierarchy_break", currentLevel |-> currentLevel,
          targetLevel |-> targetLevel, lineNumber |-> lineNumber,
          message |-> [id |-> "selection contains both H1 and H2", a |-> 0, b |-> 0]]
    ELSE NoWarning

checkDemotionRules(st, currentLevel, targetLevel, lineNumber, allOriginalLevelsSet) ==
    IF currentLevel = H5 /\ targetLevel = H6 /\ ~st.wrapAfterH6 /\ H6 \in allOriginalLevelsSet
    THEN [type |-> "demotion_blocked", currentLevel |-> currentLevel,
          targetLevel |-> targetLevel, lineNumber |-> lineNumber,
          message |-> [id |-> "Demoting H5 to H6", a |-> 0, b |-> 0]]
    ELSE IF st.wrapAfterH6 /\ currentLevel = H6
    THEN [type |-> "general_warning", currentLevel |-> currentLevel,
          targetLevel |-> targetLevel, lineNumber |-> lineNumber,
          message |-> [id |-> "Reminder: Wrap after H6 is enabled", a |-> 0, b |-> 0]]
    ELSE IF currentLevel = H6 /\ targetLevel = Paragraph /\ ~st.wrapAfterH6
    THEN [type |-> "demotion_blocked", currentLevel |-> currentLevel,
          targetLevel |-> H6, lineNumber |-> lineNumber,
          message |-> [id |-> "Cannot demote H6 to Paragraph: enable", a |-> 0, b |-> 0]]
    ELSE IF /\ st.wrapAfterH6 /\ targetLevel = Paragraph
            /\ currentLevel >= H1 /\ currentLevel <= H5
            /\ H6 \in allOriginalLevelsSet
    THEN [type |-> "hierarchy_break", currentLevel |-> currentLevel,
          targetLevel |-> targetLevel, lineNumber |-> lineNumber,
          message |-> [id |-> "might orphan", a |-> currentLevel, b |-> currentLevel + 1]]
    ELSE NoWarning

checkHierarchy(st, d, sels, currentLevel, targetLevel, lineNumber) ==
    IF currentLevel = targetLevel THEN NoWarning
    ELSE LET isPromotion == targetLevel < currentLevel
             isDemotion  == targetLevel > currentLevel
             allOriginalLevelsSet   == levelsFromSelection(d, sels, NoLine)
             otherExistingLevelsSet == levelsFromSelection(d, sels, lineNumber)
         IN IF isPromotion
            THEN checkPromotionRules(currentLevel, targetLevel, lineNumber, otherExistingLevelsSet)
            ELSE IF isDemotion
            THEN checkDemotionRules(st, currentLevel, targetLevel, lineNumber, allOriginalLevelsSet)
            ELSE NoWarning

\* `${warning.type}-${warning.currentLevel}-${warning.targetLevel}-${lineNumber}`
warningKey(warning, lineNumber) ==
    <<warning.type, warning.currentLevel, warning.targetLevel, lineNumber>>

\* A debouncer that also suppresses at exactly DEBOUNCE_TIME
isRecentDuplicateInclusive(warning, lineNumber, lwTime, lwType, clock) ==
    clock - lwTime <= DEBOUNCE_TIME /\ lwType = warningKey(warning, lineNumber)

isRecentDuplicate(warning, lineNumber, lwTime, lwType, clock) ==
    clock - lwTime < DEBOUNCE_TIME /\ lwType = warningKey(warning, lineNumber)

\* Blocking that does not look at allowHierarchyOverride
shouldBlockOperationNoOverride(st, warningType) ==
    warningType \in {"hierarchy_break", "demotion_blocked", "promotion_blocked"}

shouldBlockOperation(st, warningType) ==
    warningType \in BlockingTypes /\ ~st.allowHierarchyOverride

\* A checker that lets the operation run whenever the warning is suppressed
checkAndWarnHierarchyQuietRuns(st, d, sels, currentLevel, targetLevel, lineNumber, lwTime, lwType, clock) ==
    IF ~st.checkHierarchy
    THEN [execute |-> TRUE, notices |-> <<>>, warning |-> NoWarning,
          lwTime |-> lwTime, lwType |-> lwType]
    ELSE
    Only({
      IF warning = NoWarning
      THEN [execute |-> TRUE, notices |-> <<>>, warning |-> NoWarning,
            lwTime |-> lwTime, lwType |-> lwType]
      ELSE IF isRecentDuplicate(warning, lineNumber, lwTime, lwType, clock)
      THEN [execute |-> TRUE, notices |-> <<>>,
            warning |-> warning, lwTime |-> lwTime, lwType |-> lwType]
      ELSE [execute |-> ~shouldBlockOperation(st, warning.type),
            notices |-> << [type |-> warning.type, message |-> warning.message] >>,
            warning |-> warning,
            lwTime |-> clock, lwType |-> warningKey(warning, lineNumber)]
      : warning \in {checkHierarchy(st, d, sels, currentLevel, targetLevel, lineNumber)} })

\* A checker that restarts the debounce window at every suppressed warning
checkAndWarnHierarchyRefreshes(st, d, sels, currentLevel, targetLevel, lineNumber, lwTime, lwType, clock) ==
    IF ~st.checkHierarchy
    THEN [execute |-> TRUE, notices |-> <<>>, warning |-> NoWarning,
          lwTime |-> lwTime, lwType |-> lwType]
    ELSE
    Only({
      IF warning = NoWarning
      THEN [execute |-> TRUE, notices |-> <<>>, warning |-> NoWarning,
            lwTime |-> lwTime, lwType |-> lwType]
      ELSE IF isRecentDuplicate(warning, lineNumber, lwTime, lwType, clock)
      THEN [execute |-> ~shouldBlockOperation(st, warning.type), notices |-> <<>>,
            warning |-> warning, lwTime |-> clock, lwType |-> lwType]
      ELSE [execute |-> ~shouldBlockOperation(st, warning.type),
            notices |-> << [type |-> warning.type, message |-> warning.message] >>,
            warning |-> warning,
            lwTime |-> clock, lwType |-> warningKey(warning, lineNumber)]
      : warning \in {checkHierarchy(st, d, sels, currentLevel, targetLevel, lineNumber)} })

\* checkAndWarnHierarchy: whether operation() is run, the Notice shown, and the
\* debouncer's state afterwards
checkAndWarnHierarchy(st, d, sels, currentLevel, targetLevel, lineNumber, lwTime, lwType, clock) ==
    IF ~st.checkHierarchy
    THEN [execute |-> TRUE, notices |-> <<>>, warning |-> NoWarning,
          lwTime |-> lwTime, lwType |-> lwType]
    ELSE
    Only({
      IF warning = NoWarning
      THEN [execute |-> TRUE, notices |-> <<>>, warning |-> NoWarning,
            lwTime |-> lwTime, lwType |-> lwType]
      ELSE IF isRecentDuplicate(warning, lineNumber, lwTime, lwType, clock)
      THEN [execute |-> ~shouldBlockOperation(st, warning.type), notices |-> <<>>,
            warning |-> warning, lwTime |-> lwTime, lwType |-> lwType]
      ELSE [execute |-> ~shouldBlockOperation(st, warning.type),
            notices |-> << [type |-> warning.type, message |-> warning.message] >>,
            warning |-> warning,
            lwTime |-> clock, lwType |-> warningKey(warning, lineNumber)]
      : warning \in {checkHierarchy(st, d, sels, currentLevel, targetLevel, lineNumber)} })

-----------------------------------------------------------------------------
(* HeadingOperations: one selection of an operation, up to its first await *)

planOf(st, d, selection, opType, arg) ==
    IF opType = "set"
    THEN collectWithLevel(d, startLineOf(selection), endLineOf(selection), arg)
    ELSE collectDirectional(st, d, startLineOf(selection), endLineOf(selection), opType)

\* A batch that is checked whether or not the engine has a host context
executeBatchStartAlwaysChecks(st, hasApp, d, transformations, operationType, selStart, selEnd) ==
    IF Len(transformations) = 0
    THEN [doc |-> d, awaited |-> FALSE, originalStates |-> <<>>,
          check |-> [shouldContinue |-> TRUE, notices |-> <<>>, issues |-> <<>>]]
    ELSE Only({
           [doc |-> applied, awaited |-> TRUE, originalStates |-> originalStates,
            check |-> checkBatchHierarchy(st, applied, transformations,
                          originalLevelsInSelectionMap(d, originalStates, selStart, selEnd),
                          operationType, selStart, selEnd)]
           : originalStates \in {originalStatesOf(d, transformations)},
             applied \in {applyAll(d, transformations, 1)} })

\* executeBatchTransformation up to `await this.checkBatchHierarchy(...)`
executeBatchStart(st, hasApp, d, transformations, operationType, selStart, selEnd) ==
    IF Len(transformations) = 0
    THEN [doc |-> d, awaited |-> FALSE, originalStates |-> <<>>,
          check |-> [shouldContinue |-> TRUE, notices |-> <<>>, issues |-> <<>>]]
    ELSE Only({
           IF hasApp
           THEN [doc |-> applied, awaited |-> TRUE, originalStates |-> originalStates,
                 check |-> checkBatchHierarchy(st, applied, transformations,
                               originalLevelsInSelectionMap(d, originalStates, selStart, selEnd),
                               operationType, selStart, selEnd)]
           ELSE [doc |-> applied, awaited |-> FALSE, originalStates |-> originalStates,
                 check |-> [shouldContinue |-> TRUE, notices |-> <<>>, issues |-> <<>>]]
           : originalStates \in {originalStatesOf(d, transformations)},
             applied \in {applyAll(d, transformations, 1)} })

\* A revert that stops after the first snapshot
executeBatchResumeFirstOnly(d, originalStates, shouldContinue) ==
    IF ~shouldContinue THEN revertAll(d, SubSeq(originalStates, 1, 1), 1) ELSE d

\* executeBatchTransformation after the await, lines 173-181
executeBatchResume(d, originalStates, shouldContinue) ==
    IF ~shouldContinue THEN revertAll(d, originalStates, 1) ELSE d

\* The continuation and the history entry of one selection's batch
batchOutcome(d, selStart, selEnd, transformations, ex) ==
    [doc |-> ex.doc,
     pc  |-> IF ex.awaited THEN "revert" ELSE "process",
     originalStates |-> ex.originalStates,
     shouldContinue |-> ex.check.shouldContinue,
     batch |-> [startLine |-> selStart, endLine |-> selEnd,
                transformations |-> transformations,
                before |-> d, issues |-> ex.check.issues,
                notices |-> ex.check.notices,
                checked |-> ex.awaited,
                shouldContinue |-> ex.check.shouldContinue]]

\* processSelection / processSelectionWithLevel run synchronously into
\* executeBatchTransformation
startSelection(st, hasApp, d, selection, opType, arg) ==
    LET selStart == startLineOf(selection)
        selEnd   == endLineOf(selection)
    IN Only({ Only({ batchOutcome(d, selStart, selEnd, transformations, ex) :
                     ex \in {executeBatchStart(st, hasApp, d, transformations, opType,
                                               selStart, selEnd)} })
              : transformations \in {planOf(st, d, selection, opType, arg)} })

-----------------------------------------------------------------------------
(* State machine *)

Directions == {"up", "down", "cycle"}

NoArg == 0

\* History entry of one operation: what was asked, the buffer when it was issued
\* (pre) and when it finished (post), the batches it ran and the Notices it showed
OpRecord(kind, arg, line, pre, post, batches, notices, executed, done) ==
    [kind |-> kind, arg |-> arg, line |-> line, pre |-> pre, post |-> post,
     batches |-> batches, notices |-> notices, executed |-> executed, done |-> done]

\* One microtask: the continuation at the head of the queue runs; a continuation
\* that resolves the promise its caller awaits queues the caller's continuation.
\* m is the buffer, the queue and the history.
runMicrotask(st, hasApp, m) ==
    LET head == Head(m.tasks) IN
    CASE head.pc = "revert" ->
           \* executeBatchTransformation resumes after `await checkBatchHierarchy`
           [doc |-> executeBatchResume(m.doc, head.originalStates, head.shouldContinue),
            tasks |-> Append(Tail(m.tasks), [head EXCEPT !.pc = "process"]),
            log |-> m.log]
      [] head.pc = "process" ->
           \* processSelection resumes after `await executeBatchTransformation`
           [doc |-> m.doc,
            tasks |-> Append(Tail(m.tasks), [head EXCEPT !.pc = "loop"]),
            log |-> m.log]
      [] head.pc = "loop" ->
           \* cycleHeading / setHeadingLevel resume in their for loop
           IF head.rest = <<>>
           THEN [doc |-> m.doc,
                 tasks |-> Tail(m.tasks),
                 log |-> [m.log EXCEPT ![head.op].done = TRUE,
                                       ![head.op].post = m.doc]]
           ELSE Only({
                [doc |-> r.doc,
                 tasks |-> Append(Tail(m.tasks),
                                  [head EXCEPT !.pc = r.pc,
                                               !.originalStates = r.originalStates,
                                               !.shouldContinue = r.shouldContinue,
                                               !.rest = Tail(@)]),
                 log |-> [m.log EXCEPT ![head.op].batches = Append(@, r.batch),
                                       ![head.op].notices = @ \o r.batch.notices]]
                : r \in {startSelection(st, hasApp, m.doc, head.rest[1],
                                        head.opType, head.arg)} })

\* The microtask checkpoint: microtasks run, first in first out, until none is left
RECURSIVE drain(_, _, _)
drain(st, hasApp, m) ==
    IF m.tasks = <<>> THEN m
    ELSE Only({ drain(st, hasApp, n) : n \in {runMicrotask(st, hasApp, m)} })

\* cycleHeading(editor, direction) / setHeadingLevel(editor, targetLevel) from the
\* call to the first await: the first selection's batch is applied and checked,
\* and the rest of the operation is suspended
\* An operation that handles the first selection and leaves the others
issueSelectionOpFirstOnly(st, hasApp, m, sels, opType, arg) ==
    IF (opType \in Directions /\ ~st.enableCycling) \/ Len(sels) = 0
    THEN [m EXCEPT !.log = Append(@, OpRecord(opType, arg, NoLine, m.doc, m.doc, <<>>, <<>>,
                                              FALSE, TRUE))]
    ELSE Only({
           [doc |-> r.doc,
            tasks |-> Append(m.tasks, [pc |-> r.pc, op |-> Len(m.log) + 1,
                                       opType |-> opType, arg |-> arg,
                                       originalStates |-> r.originalStates,
                                       shouldContinue |-> r.shouldContinue,
                                       rest |-> <<>>]),
            log |-> Append(m.log, OpRecord(opType, arg, NoLine, m.doc, m.doc, <<r.batch>>,
                                           r.batch.notices, FALSE, FALSE))]
           : r \in {startSelection(st, hasApp, m.doc, sels[1], opType, arg)} })

issueSelectionOp(st, hasApp, m, sels, opType, arg) ==
    IF (opType \in Directions /\ ~st.enableCycling) \/ Len(sels) = 0
    THEN [m EXCEPT !.log = Append(@, OpRecord(opType, arg, NoLine, m.doc, m.doc, <<>>, <<>>,
                                              FALSE, TRUE))]
    ELSE Only({
           [doc |-> r.doc,
            tasks |-> Append(m.tasks, [pc |-> r.pc, op |-> Len(m.log) + 1,
                                       opType |-> opType, arg |-> arg,
                                       originalStates |-> r.originalStates,
                                       shouldContinue |-> r.shouldContinue,
                                       rest |-> Tail(sels)]),
            log |-> Append(m.log, OpRecord(opType, arg, NoLine, m.doc, m.doc, <<r.batch>>,
                                           r.batch.notices, FALSE, FALSE))]
           : r \in {startSelection(st, hasApp, m.doc, sels[1], opType, arg)} })

\* The operation issued on a quiet engine and run to its end
runSelectionOp(st, hasApp, d, sels, opType, arg) ==
    drain(st, hasApp,
          issueSelectionOp(st, hasApp, [doc |-> d, tasks |-> <<>>, log |-> <<>>],
                           sels, opType, arg))

\* A command of main.ts: the host runs the callback, which calls the engine and
\* returns at the first await, and then the microtask checkpoint, before it
\* handles any other event
hostCommand(opType, arg) ==
    /\ tasks = <<>> /\ log = <<>>
    /\ \E m \in {runSelectionOp(settings, app, doc, selections, opType, arg)} :
          /\ doc' = m.doc
          /\ log' = m.log
    /\ UNCHANGED <<selections, settings, app, tasks, lastWarningType, lastWarningTime, now>>

\* cycleHeading(editor, direction), issued by a command (main.ts 46-61)
CycleHeading(direction) == hostCommand(direction, NoArg)

\* setHeadingLevel(editor, targetLevel) without a line number (main.ts 70, 79)
SetHeadingLevel(targetLevel) == hostCommand("set", targetLevel)

\* setHeadingLevel with a line number, lines 31-54: the buffer, the Notices and
\* the debounce fields it leaves
setHeadingLevelLine(st, hasApp, d, sels, targetLevel, lineNumber, lwTime, lwType, clock) ==
    Only({
      Only({
        [doc |-> IF r.execute THEN transformLine(d, lineNumber - 1, targetLevel) ELSE d,
         executed |-> r.execute, notices |-> r.notices,
         lwTime |-> r.lwTime, lwType |-> r.lwType]
        : r \in {IF ~canTransform(level, targetLevel)
                  THEN [execute |-> FALSE, notices |-> <<>>, warning |-> NoWarning,
                        lwTime |-> lwTime, lwType |-> lwType]
                  ELSE IF hasApp
                  THEN checkAndWarnHierarchy(st, d, sels, level, targetLevel,
                                             lineNumber, lwTime, lwType, clock)
                  ELSE [execute |-> TRUE, notices |-> <<>>, warning |-> NoWarning,
                        lwTime |-> lwTime, lwType |-> lwType]} })
      : level \in {parseLine(getLine(d, lineNumber - 1)).level} })

\* setHeadingLevel(editor, targetLevel, lineNumber) (main.ts 90)
SetHeadingLevelLine(targetLevel, lineNumber) ==
    /\ tasks = <<>> /\ log = <<>>
    /\ \E r \in {setHeadingLevelLine(settings, app, doc, selections, targetLevel, lineNumber,
                                     lastWarningTime, lastWarningType, now)} :
          /\ doc' = r.doc
          /\ lastWarningTime' = r.lwTime
          /\ lastWarningType' = r.lwType
          /\ log' = << OpRecord("setLine", targetLevel, lineNumber, doc, r.doc, <<>>,
                                r.notices, r.executed, TRUE) >>
    /\ UNCHANGED <<selections, settings, app, tasks, now>>

\* A call of cycleHeading whose promise the caller drops: the caller goes on
\* while the operation is suspended at its first await
droppedCycleHeading(direction) ==
    /\ log = <<>> \/ tasks # <<>>
    /\ Len(tasks) < MaxInFlight
    /\ \E m \in {issueSelectionOp(settings, app, [doc |-> doc, tasks |-> tasks, log |-> log],
                                   selections, direction, NoArg)} :
          /\ doc' = m.doc
          /\ tasks' = m.tasks
          /\ log' = m.log
    /\ UNCHANGED <<selections, settings, app, lastWarningType, lastWarningTime, now>>

\* smartPromote / smartDemote, lines 512-524
SmartPromote == droppedCycleHeading("up")

SmartDemote == droppedCycleHeading("down")

\* The synchronous caller has returned to the event loop: before any other event
\* is handled, the pending continuations run to their end
DrainMicrotasks ==
    /\ tasks # <<>>
    /\ \E m \in {drain(settings, app, [doc |-> doc, tasks |-> tasks, log |-> log])} :
          /\ doc' = m.doc
          /\ tasks' = m.tasks
          /\ log' = m.log
    /\ UNCHANGED <<selections, settings, app, lastWarningType, lastWarningTime, now>>

\* A command whose batch notifications go through the debouncer's fields
repeatedCommandStoresWarning(opType, arg) ==
    /\ tasks = <<>>
    /\ Len(log) < MaxOps
    /\ \E m \in {drain(settings, app,
                        issueSelectionOp(settings, app,
                                         [doc |-> doc, tasks |-> <<>>, log |-> log],
                                         selections, opType, arg))} :
          /\ doc' = m.doc
          /\ log' = m.log
          /\ IF m.log[Len(m.log)].notices = <<>>
             THEN UNCHANGED <<lastWarningType, lastWarningTime>>
             ELSE /\ lastWarningTime' = now
                  /\ lastWarningType' = <<opType>>
    /\ UNCHANGED <<selections, settings, app, tasks, now>>

\* A command issued again on the engine once the one before it has run to its
\* end; the history keeps every operation
repeatedCommand(opType, arg) ==
    /\ tasks = <<>>
    /\ Len(log) < MaxOps
    /\ \E m \in {drain(settings, app,
                        issueSelectionOp(settings, app,
                                         [doc |-> doc, tasks |-> <<>>, log |-> log],
                                         selections, opType, arg))} :
          /\ doc' = m.doc
          /\ log' = m.log
    /\ UNCHANGED <<selections, settings, app, tasks, lastWarningType, lastWarningTime, now>>

\* The 'cycle-heading' command (main.ts 42-47), issued repeatedly
RepeatCycle == repeatedCommand("cycle", NoArg)

\* The directional command issued before, issued again on the same selection
sameCommandAgain(direction) ==
    /\ IF log = <<>> THEN TRUE ELSE log[1].kind = direction
    /\ repeatedCommand(direction, NoArg)

\* A command over the selection issued between line-number calls
commandBetweenCalls(opType, arg) ==
    /\ Len(log) < MaxLineOps
    /\ repeatedCommand(opType, arg)

\* A call of MarkdownParser.cycleHeading on its own; the history keeps the
\* arguments and the value returned
CallCycleHeading(currentLevel, direction, wrapAfterH6) ==
    /\ log = <<>>
    /\ log' = << [fn |-> "cycleHeading", currentLevel |-> currentLevel,
                  direction |-> direction, wrapAfterH6 |-> wrapAfterH6,
                  result |-> cycleHeading(currentLevel, direction, wrapAfterH6)] >>
    /\ UNCHANGED <<doc, selections, settings, app, tasks, lastWarningType, lastWarningTime, now>>

\* MarkdownParser.lineToText(MarkdownParser.parseLine(text), newLevel), the
\* computation of transformLine, on its own
CallLineToText(text, newLevel) ==
    /\ log = <<>>
    /\ \E parsed \in {parseLine(text)} :
          log' = << [fn |-> "lineToText", text |-> text, newLevel |-> newLevel,
                     parsed |-> parsed, result |-> lineToText(parsed, newLevel)] >>
    /\ UNCHANGED <<doc, selections, settings, app, tasks, lastWarningType, lastWarningTime, now>>

\* setHeadingLevel(editor, targetLevel, lineNumber) called again on the same
\* engine; the history keeps every call and the time of the call
repeatedSetLine(targetLevel, lineNumber) ==
    /\ tasks = <<>>
    /\ Len(log) < MaxLineOps
    /\ \E r \in {setHeadingLevelLine(settings, app, doc, selections, targetLevel, lineNumber,
                                     lastWarningTime, lastWarningType, now)} :
          /\ doc' = r.doc
          /\ lastWarningTime' = r.lwTime
          /\ lastWarningType' = r.lwType
          /\ log' = Append(log, [kind |-> "setLine", arg |-> targetLevel,
                                 line |-> lineNumber, pre |-> doc, post |-> r.doc,
                                 batches |-> <<>>, notices |-> r.notices,
                                 executed |-> r.executed, done |-> TRUE, clock |-> now])
    /\ UNCHANGED <<selections, settings, app, tasks, now>>

\* Date.now() is later at the next call
Tick(instant) ==
    /\ tasks = <<>>
    /\ now < instant
    /\ now' = instant
    /\ UNCHANGED <<doc, selections, settings, app, tasks, lastWarningType, lastWarningTime, log>>

-----------------------------------------------------------------------------
(* Initial states *)

Docs == [LineNums -> LineTexts]

\* One selection: a range of lines, anchor before head or after it
Ranges == {<< [anchor |-> a, head |-> h] >> : a \in LineNums, h \in LineNums}

ForwardRanges == {sel \in Ranges : sel[1].anchor <= sel[1].head}

\* DEFAULT_SETTINGS (src/settings.ts) with the three hierarchy switches free and
\* the minimum level at its default or one below it
CyclingSettings ==
    [enableCycling : {TRUE}, wrapAfterH6 : BOOLEAN, minLevel : {H1, H2}, maxLevel : {H6},
     checkHierarchy : BOOLEAN, allowHierarchyOverride : BOOLEAN]

\* DEFAULT_SETTINGS with cycling switched off
NoCyclingSettings ==
    [enableCycling : {FALSE}, wrapAfterH6 : {TRUE}, minLevel : {H1}, maxLevel : {H6},
     checkHierarchy : {TRUE}, allowHierarchyOverride : {FALSE}]

Settings == CyclingSettings \cup NoCyclingSettings

\* The lines outside the selection: a paragraph or a top-level heading
OutsideTexts == {Canonical(Paragraph), Canonical(H1)}

OutsideOk(d, sels) ==
    \A i \in LineNums :
        (Len(sels) > 0 /\ (i < startLineOf(sels[1]) \/ i > endLineOf(sels[1])))
            => d[i] \in OutsideTexts

InitWith(docs, sels, sets, apps) ==
    /\ doc \in docs
    /\ selections \in sels
    /\ OutsideOk(doc, selections)
    /\ settings \in sets
    /\ app \in apps
    /\ tasks = <<>>
    /\ lastWarningType = <<>>
    /\ lastWarningTime = 0
    /\ now = StartTime
    /\ log = <<>>

Init == InitWith(Docs, ForwardRanges, Settings, BOOLEAN)

Next ==
    \/ \E direction \in Directions : CycleHeading(direction)
    \/ \E targetLevel \in HeadingLevel : SetHeadingLevel(targetLevel)
    \/ \E targetLevel \in HeadingLevel, lineNumber \in 1..NumLines :
            SetHeadingLevelLine(targetLevel, lineNumber)

Spec == Init /\ [][Next]_vars

\* A caller that issues smartPromote / smartDemote back to back and then returns
\* to the event loop; the engine is the one main.ts builds (host context present)
RaceSettings == {st \in CyclingSettings : st.checkHierarchy /\ st.minLevel = H1}

InitRace == InitWith(Docs, ForwardRanges, RaceSettings, {TRUE})

NextRace ==
    \/ SmartPromote
    \/ SmartDemote
    \/ DrainMicrotasks

SpecRace == InitRace /\ [][NextRace]_vars

\* Directional commands under every pair of level limits the settings tab can
\* store (two independent dropdowns, src/settings.ts 74-104), on documents of
\* canonical lines of every level
ClampTexts == {Canonical(l) : l \in HeadingLevel}

ClampDocs == [LineNums -> ClampTexts]

ClampSettings ==
    [enableCycling : {TRUE}, wrapAfterH6 : BOOLEAN, minLevel : H1..H6, maxLevel : H1..H6,
     checkHierarchy : BOOLEAN, allowHierarchyOverride : BOOLEAN]

InitClamp == InitWith(ClampDocs, ForwardRanges, ClampSettings, {TRUE})

NextClamp == \E direction \in Directions : CycleHeading(direction)

SpecClamp == InitClamp /\ [][NextClamp]_vars

\* The 'cycle' command issued again and again on a selection of one heading
\* line, with the default level limits and wrapAfterH6 on
NestedH1 == <<"#", " ", "#", " ", "a">>

LadderTexts == {Canonical(l) : l \in H1..H6} \cup {LooseH2, NestedH1, NestedH6}

LadderDocs == [LineNums -> LadderTexts \cup OutsideTexts]

OneLineRanges == {sel \in Ranges : sel[1].anchor = sel[1].head}

LadderSettings ==
    [enableCycling : {TRUE}, wrapAfterH6 : {TRUE}, minLevel : {H1}, maxLevel : {H6},
     checkHierarchy : BOOLEAN, allowHierarchyOverride : BOOLEAN]

InitLadder ==
    /\ InitWith(LadderDocs, OneLineRanges, LadderSettings, BOOLEAN)
    /\ doc[selections[1].head] \in LadderTexts

NextLadder == RepeatCycle

SpecLadder == InitLadder /\ [][NextLadder]_vars

\* Commands issued while the editor reports two selections, the first above the
\* second
TwoRanges ==
    {sels \in {<< [anchor |-> a1, head |-> h1], [anchor |-> a2, head |-> h2] >> :
                   a1 \in LineNums, h1 \in LineNums, a2 \in LineNums, h2 \in LineNums} :
        /\ sels[1].anchor <= sels[1].head
        /\ sels[1].head < sels[2].anchor
        /\ sels[2].anchor <= sels[2].head}

InitMulti ==
    /\ doc \in ClampDocs
    /\ selections \in TwoRanges
    /\ settings \in CyclingSettings
    /\ app = TRUE
    /\ tasks = <<>>
    /\ lastWarningType = <<>>
    /\ lastWarningTime = 0
    /\ now = StartTime
    /\ log = <<>>

NextMulti ==
    \/ \E direction \in Directions : CycleHeading(direction)
    \/ \E targetLevel \in HeadingLevel : SetHeadingLevel(targetLevel)

SpecMulti == InitMulti /\ [][NextMulti]_vars

\* Commands over documents with headings whose content starts with a heading
\* marker: turned into paragraphs, they are read as headings again, so that one
\* batch can raise a blocking issue and an advisory at once
NestedH6H2 == Hashes(6) \o <<" ", "#", "#", " ", "a">>

NestedTexts ==
    {Canonical(l) : l \in {Paragraph, H1, H2, H5, H6}} \cup {NestedH6, NestedH6H2}

NestedDocs == [LineNums -> NestedTexts]

InitNested ==
    /\ doc \in NestedDocs
    /\ selections \in ForwardRanges
    /\ settings \in CyclingSettings
    /\ app = TRUE
    /\ tasks = <<>>
    /\ lastWarningType = <<>>
    /\ lastWarningTime = 0
    /\ now = StartTime
    /\ log = <<>>

NextNested ==
    \/ \E direction \in Directions : CycleHeading(direction)
    \/ \E targetLevel \in HeadingLevel : SetHeadingLevel(targetLevel)

SpecNested == InitNested /\ [][NextNested]_vars

\* Commands issued while the editor reports two selections in any order, which
\* may cover the same lines
AnyTwoRanges == {s1 \o s2 : s1 \in ForwardRanges, s2 \in ForwardRanges}

OverlapTexts == {Canonical(l) : l \in {Paragraph, H1, H2, H5, H6}}

OverlapDocs == [LineNums -> OverlapTexts]

OverlapSettings == {st \in CyclingSettings : st.minLevel = H1}

InitOverlap ==
    /\ doc \in OverlapDocs
    /\ selections \in AnyTwoRanges
    /\ settings \in OverlapSettings
    /\ app = TRUE
    /\ tasks = <<>>
    /\ lastWarningType = <<>>
    /\ lastWarningTime = 0
    /\ now = StartTime
    /\ log = <<>>

NextOverlap ==
    \/ \E direction \in Directions : CycleHeading(direction)
    \/ \E targetLevel \in HeadingLevel : SetHeadingLevel(targetLevel)

SpecOverlap == InitOverlap /\ [][NextOverlap]_vars

\* One directional command repeated on one selection, under every pair of limits
RepeatTexts == {Canonical(H1), Canonical(H5), NestedH6}

RepeatDocs == [LineNums -> RepeatTexts]

RepeatSettings == {st \in ClampSettings : ~st.allowHierarchyOverride}

InitRepeat ==
    /\ doc \in RepeatDocs
    /\ selections \in ForwardRanges
    /\ settings \in RepeatSettings
    /\ app = TRUE
    /\ tasks = <<>>
    /\ lastWarningType = <<>>
    /\ lastWarningTime = 0
    /\ now = StartTime
    /\ log = <<>>

NextRepeat == \E direction \in Directions : sameCommandAgain(direction)

SpecRepeat == InitRepeat /\ [][NextRepeat]_vars

\* Line-number operations while the editor reports no selection
InitNoSelection == InitWith(ClampDocs, {<<>>}, CyclingSettings, {TRUE})

NextNoSelection ==
    \E targetLevel \in HeadingLevel, lineNumber \in 1..NumLines :
        SetHeadingLevelLine(targetLevel, lineNumber)

SpecNoSelection == InitNoSelection /\ [][NextNoSelection]_vars

\* Line-number operations issued one after the other while the clock advances
DebounceTexts == {Canonical(H1), Canonical(H5), Canonical(H6)}

DebounceDocs == [LineNums -> DebounceTexts]

WholeDocument == {<< [anchor |-> 0, head |-> NumLines - 1] >>}

DebounceSettings == {st \in CyclingSettings : st.minLevel = H1}

\* The two ends of the level scale and the paragraph
DebounceTargets == {Paragraph, H1, H6}

\* The instants of the calls: the first one, 1499 ms later, 1500 ms later
Instants == {StartTime + elapsed : elapsed \in {DEBOUNCE_TIME - 1, DEBOUNCE_TIME}}

InitDebounce == InitWith(DebounceDocs, WholeDocument, DebounceSettings, {TRUE})

NextDebounce ==
    \/ \E targetLevel \in DebounceTargets, lineNumber \in 1..NumLines :
            repeatedSetLine(targetLevel, lineNumber)
    \/ \E instant \in Instants : Tick(instant)

SpecDebounce == InitDebounce /\ [][NextDebounce]_vars

\* Commands over the selection and line-number operations issued one after the
\* other on the same engine while the clock advances
MixedSettings ==
    {st \in DebounceSettings : st.checkHierarchy /\ ~st.allowHierarchyOverride}

InitMixed == InitWith(DebounceDocs, WholeDocument, MixedSettings, {TRUE})

NextMixed ==
    \/ \E direction \in Directions : commandBetweenCalls(direction, NoArg)
    \/ \E targetLevel \in DebounceTargets : commandBetweenCalls("set", targetLevel)
    \/ \E targetLevel \in DebounceTargets, lineNumber \in 1..NumLines :
            repeatedSetLine(targetLevel, lineNumber)
    \/ \E instant \in Instants : Tick(instant)

SpecMixed == InitMixed /\ [][NextMixed]_vars

\* Directional commands over documents that hold lines with a '#' run of more
\* than six characters: bare, indented or in a list item, and followed by
\* nothing, a space, a space and text, or text
LongHashTexts ==
    {pre \o Hashes(7) \o post :
        pre \in {<<>>, <<" ">>, <<"-", " ">>},
        post \in {<<>>, <<" ">>, <<" ", "a">>, <<"a">>}}

LongDocs == [LineNums -> LongHashTexts \cup {Canonical(H1), Canonical(H6)}]

InitLong == InitWith(LongDocs, ForwardRanges, CyclingSettings, {TRUE})

NextLong == \E direction \in Directions : CycleHeading(direction)

SpecLong == InitLong /\ [][NextLong]_vars

\* The parser, the formatter and the level function called on their own
Alphabet == {" ", "#", "-", "a"}

Texts ==
    UNION {[1..n -> Alphabet] : n \in 0..MaxLen}
        \cup LongHashTexts \cup {NestedH6}

InitPure ==
    InitWith({[l \in LineNums |-> Canonical(Paragraph)]}, {<<>>}, NoCyclingSettings, {FALSE})

\* One call in a behaviour
NextPure ==
    \/ /\ log = <<>>
       /\ \E currentLevel \in HeadingLevel, direction \in Directions, wrapAfterH6 \in BOOLEAN :
              CallCycleHeading(currentLevel, direction, wrapAfterH6)
    \/ /\ log = <<>>
       /\ \E text \in Texts, newLevel \in HeadingLevel : CallLineToText(text, newLevel)

SpecPure == InitPure /\ [][NextPure]_vars

-----------------------------------------------------------------------------
(* Properties: one operation on a quiet engine (Spec) *)

\* The operation of the history has run to its end
Completed == Len(log) = 1 /\ log[1].done

\* It went through executeBatchTransformation for the one selection
IsBatch == Completed /\ log[1].kind \in Directions \cup {"set"} /\ Len(log[1].batches) = 1

Plan == log[1].batches[1].transformations

Issues == log[1].batches[1].issues

SelLines == startLineOf(selections[1])..endLineOf(selections[1])

\* The lines the operation was asked to process
Processed == IF log[1].kind = "setLine" THEN {log[1].line - 1} ELSE SelLines

PreLevel(l) == parseLine(log[1].pre[l]).level

\* The text a line gets when it is rewritten at a level
Rewritten(l, level) == lineToText(parseLine(log[1].pre[l]), level)

AllApplied ==
    \A k \in 1..Len(Plan) : doc[Plan[k].lineNum] = Rewritten(Plan[k].lineNum, Plan[k].targetLevel)

AllOriginal ==
    \A k \in 1..Len(Plan) : doc[Plan[k].lineNum] = log[1].pre[Plan[k].lineNum]

PrimaryIsBlocking == IsBatch /\ Issues # <<>> /\ Issues[1].type \in BlockingTypes

\* C1: a directional operation with host context, checkHierarchy on and override
\* off whose primary issue is blocking leaves every line of the document with
\* the text it had before the operation, byte for byte.
C1_BlockedDirectionalRestoresText ==
    (/\ PrimaryIsBlocking
     /\ log[1].kind \in Directions
     /\ app /\ settings.checkHierarchy /\ ~settings.allowHierarchyOverride)
        => doc = log[1].pre

\* A blocked directional batch one of whose lines the apply step had respaced
C1_Witness ==
    /\ PrimaryIsBlocking
    /\ log[1].kind \in Directions
    /\ app /\ settings.checkHierarchy /\ ~settings.allowHierarchyOverride
    /\ \E k \in 1..Len(Plan) : log[1].pre[Plan[k].lineNum] = LooseH2

\* C2: after a completed batch operation either every candidate line holds its
\* transformed text or every candidate line holds its original text.
C2_AllOrNothing == IsBatch => (AllApplied \/ AllOriginal)

\* A batch of two or more candidates that was reverted
C2_Witness ==
    /\ IsBatch
    /\ Len(Plan) >= 2
    /\ ~log[1].batches[1].shouldContinue
    /\ AllOriginal /\ ~AllApplied

\* A line the explicit set is meant to change
C3_Eligible(l) ==
    canTransform(PreLevel(l), log[1].arg) /\ PreLevel(l) # log[1].arg

\* C3 as stated: every explicit set, with or without a line number, leaves each
\* eligible line whose level differs from the target rewritten at the target
\* level.
C3_SetNeverBlocked ==
    (Completed /\ log[1].kind \in {"set", "setLine"})
        => \A l \in Processed :
              C3_Eligible(l) => doc[l] = Rewritten(l, log[1].arg)

\* The single-line check reports a blocking warning and override is off
C3_LineBlocked(l) ==
    /\ app /\ settings.checkHierarchy /\ ~settings.allowHierarchyOverride
    /\ \/ /\ log[1].arg = H1
          /\ PreLevel(l) > H1
          /\ \E j \in SelLines \ {l} : PreLevel(j) = H1
       \/ /\ PreLevel(l) = H5
          /\ log[1].arg = H6
          /\ ~settings.wrapAfterH6
          /\ \E j \in SelLines : PreLevel(j) = H6

\* C3, amended: an explicit set over the selection rewrites every eligible line
\* at the target level whatever the settings and shows at most one Notice; an
\* explicit set of one line by number rewrites it at the target level unless
\* the single-line check blocks it, and then the document is unchanged.
C3_SetCommitsUnlessLineBlocked ==
    /\ (Completed /\ log[1].kind = "set")
          => /\ \A l \in SelLines :
                   C3_Eligible(l) => doc[l] = Rewritten(l, log[1].arg)
             /\ Len(log[1].notices) <= 1
    /\ (Completed /\ log[1].kind = "setLine")
          => \A l \in Processed :
                C3_Eligible(l) =>
                    IF C3_LineBlocked(l)
                    THEN doc = log[1].pre
                    ELSE doc[l] = Rewritten(l, log[1].arg)

\* An explicit set over the selection that found a blocking issue with
\* override off, and stayed applied
C3_Witness ==
    /\ PrimaryIsBlocking
    /\ log[1].kind = "set"
    /\ ~settings.allowHierarchyOverride
    /\ Len(log[1].notices) = 1
    /\ doc # log[1].pre

\* An 'up' over a selection that holds an H1 line and an H2 line, with
\* checkHierarchy on and override off
C4_Case ==
    /\ Completed
    /\ log[1].kind = "up"
    /\ settings.checkHierarchy /\ ~settings.allowHierarchyOverride
    /\ \E l \in SelLines : PreLevel(l) = H1
    /\ \E l \in SelLines : PreLevel(l) = H2

C4_Blocked ==
    /\ \A l \in SelLines : doc[l] = log[1].pre[l]
    /\ Len(log[1].notices) = 1

\* C4 as stated: with checkHierarchy on and override off, an 'up' over a
\* selection that holds an H1 line and an H2 line is blocked, every line of the
\* selection keeps its text and exactly one notification is emitted.
C4_UpOverH1AndH2Blocked == C4_Case => C4_Blocked

\* C4, amended: the same, for an engine that has a host context, with cycling
\* enabled and minLevel at H1.
C4_UpOverH1AndH2BlockedWithHost ==
    (C4_Case /\ app /\ settings.enableCycling /\ settings.minLevel = H1) => C4_Blocked

\* The blocked 'up' had planned two lines, the respaced H2 line among them
C4_Witness ==
    /\ C4_Case /\ app /\ settings.enableCycling /\ settings.minLevel = H1
    /\ Len(Plan) >= 2
    /\ \E l \in SelLines : log[1].pre[l] = LooseH2

\* C6: a batch operation over one selection emits at most one notification,
\* and exactly one when its deduplicated issue list is not empty.
C6_OneNoticePerBatch ==
    IsBatch => /\ Len(log[1].notices) <= 1
               /\ (Issues # <<>> => Len(log[1].notices) = 1)

\* Two lines transformed, two issues found, one Notice
C6_Witness ==
    /\ IsBatch
    /\ Len(Plan) >= 2
    /\ Len(Issues) >= 2
    /\ Len(log[1].notices) = 1

\* C7: an operation changes only lines that are in the processed range (or are
\* the given line) and parse as H1..H6 before it; paragraphs and lines outside
\* the range keep their text.
C7_OnlyHeadingsInRangeChange ==
    Completed =>
        \A l \in LineNums :
            (PreLevel(l) = Paragraph \/ l \notin Processed) => doc[l] = log[1].pre[l]

\* The operation changed the document, with a paragraph inside the range and a
\* heading outside it
C7_Witness ==
    /\ Completed
    /\ doc # log[1].pre
    /\ \E l \in Processed : PreLevel(l) = Paragraph
    /\ \E l \in LineNums \ Processed : PreLevel(l) # Paragraph

\* C8: with checkHierarchy off, or without a host context, an operation applies
\* all of its planned transformations and emits no notification.
C8_UncheckedCommitsSilently ==
    (Completed /\ (~settings.checkHierarchy \/ ~app)) =>
        /\ log[1].notices = <<>>
        /\ IsBatch => AllApplied
        /\ log[1].kind = "setLine" =>
              \A l \in Processed :
                  canTransform(PreLevel(l), log[1].arg) => doc[l] = Rewritten(l, log[1].arg)

\* Without a host context, an 'up' that promotes an H2 beside an H1 stays
\* applied although checkHierarchy is on and override is off
C8_Witness ==
    /\ IsBatch
    /\ ~app /\ settings.checkHierarchy /\ ~settings.allowHierarchyOverride
    /\ log[1].kind = "up"
    /\ \E k \in 1..Len(Plan) : Plan[k].targetLevel = H1
    /\ \E l \in SelLines : PreLevel(l) = H1
    /\ AllApplied /\ ~AllOriginal

\* C9: when the primary issue is a general_warning the operation stays applied,
\* whatever allowHierarchyOverride and the operation type, and one notification
\* is emitted.
C9_GeneralWarningCommits ==
    (IsBatch /\ Issues # <<>> /\ Issues[1].type = "general_warning")
        => AllApplied /\ Len(log[1].notices) = 1

\* A directional batch with override off whose primary issue is advisory
C9_Witness ==
    /\ IsBatch
    /\ Issues # <<>> /\ Issues[1].type = "general_warning"
    /\ log[1].kind \in Directions
    /\ ~settings.allowHierarchyOverride
    /\ ~AllOriginal

\* The same operation on the same document with checkHierarchy off
C10_Unchecked ==
    LET st == [settings EXCEPT !.checkHierarchy = FALSE] IN
    IF log[1].kind = "setLine"
    THEN setHeadingLevelLine(st, app, log[1].pre, selections, log[1].arg, log[1].line,
                             0, <<>>, StartTime).doc
    ELSE runSelectionOp(st, app, log[1].pre, selections, log[1].kind, log[1].arg).doc

\* C10: with allowHierarchyOverride on, the document after an operation is the
\* document the same operation produces with checkHierarchy off.
C10_OverrideEqualsUnchecked ==
    (Completed /\ settings.allowHierarchyOverride) => doc = C10_Unchecked

\* An operation that showed a blocking Notice and went on because of override
C10_Witness ==
    /\ Completed
    /\ settings.allowHierarchyOverride /\ settings.checkHierarchy /\ app
    /\ log[1].notices # <<>>
    /\ log[1].notices[1].type \in BlockingTypes
    /\ doc # log[1].pre

\* An explicit set to Paragraph, by line number or over the selection, on an
\* engine with host context, wrapAfterH6 off, checkHierarchy on and override off
C11_Case ==
    /\ Completed
    /\ log[1].kind \in {"set", "setLine"}
    /\ log[1].arg = Paragraph
    /\ app /\ ~settings.wrapAfterH6
    /\ settings.checkHierarchy /\ ~settings.allowHierarchyOverride

\* C11: setHeadingLevel(Paragraph) on an H6 line with wrapAfterH6 off,
\* checkHierarchy on and override off commits (the line is rewritten without a
\* heading marker) and shows exactly one notification, on the line-number path
\* and on the selection path.
C11_SetParagraphOnH6Warns ==
    C11_Case =>
        \A l \in Processed :
            PreLevel(l) = H6 =>
                /\ doc[l] = Rewritten(l, Paragraph)
                /\ Len(log[1].notices) = 1

\* Demoting the H1 line of a selection [H1, H2, H3] to Paragraph, by line number
\* or over the selection, with wrapAfterH6 on, checkHierarchy on, override off
C13_Case ==
    /\ Completed
    /\ log[1].kind \in {"set", "setLine"}
    /\ log[1].arg = Paragraph
    /\ log[1].kind = "setLine" => log[1].line = 1
    /\ app /\ settings.wrapAfterH6
    /\ settings.checkHierarchy /\ ~settings.allowHierarchyOverride
    /\ SelLines = 0..2
    /\ PreLevel(0) = H1 /\ PreLevel(1) = H2 /\ PreLevel(2) = H3

\* C13: on a selection [H1, H2, H3] with wrapAfterH6 on, checkHierarchy on and
\* override off, demoting the H1 line to Paragraph raises a hierarchy_break
\* notification and leaves the three lines with their original text.
C13_H1ToParagraphReverted ==
    C13_Case =>
        /\ doc = log[1].pre
        /\ Len(log[1].notices) = 1
        /\ log[1].notices[1].type = "hierarchy_break"

\* The level an operation computes for a line at `level`, and whether the
\* operation takes the line at all
C26_Target(level) ==
    IF log[1].kind \in Directions
    THEN applyLevelConstraints(settings, cycleHeading(level, log[1].kind, settings.wrapAfterH6))
    ELSE log[1].arg

C26_Eligible(level) ==
    IF log[1].kind \in Directions THEN level # Paragraph ELSE canTransform(level, log[1].arg)

C26_NothingToDo ==
    /\ Completed
    /\ \A l \in Processed :
          ~C26_Eligible(PreLevel(l)) \/ C26_Target(PreLevel(l)) = PreLevel(l)

C26_Quiet == doc = log[1].pre /\ log[1].notices = <<>>

\* C26 as stated: an operation for which every line in range is ineligible or
\* already at its computed target performs no buffer write and emits no
\* notification.
C26_NoOpIsQuiet == C26_NothingToDo => C26_Quiet

\* C26: an operation over a selection for which every line in range is
\* ineligible or already at its computed target performs no buffer write and
\* emits no notification; the operation on a line number emits no notification
\* either, and rewrites a heading line that is already at the target level in
\* normalised form.
C26_NoOpOverSelectionIsQuiet ==
    /\ (C26_NothingToDo /\ log[1].kind # "setLine") => C26_Quiet
    /\ (C26_NothingToDo /\ log[1].kind = "setLine")
          => /\ log[1].notices = <<>>
             /\ \A l \in LineNums :
                   doc[l] = IF l \in Processed /\ C26_Eligible(PreLevel(l))
                            THEN Rewritten(l, PreLevel(l))
                            ELSE log[1].pre[l]

\* 'set H2' over a selection of H2 headings, one of them loosely spaced, with
\* the hierarchy check on
C26_Witness ==
    /\ C26_NothingToDo /\ log[1].kind = "set" /\ log[1].arg = H2
    /\ app /\ settings.checkHierarchy
    /\ \E l \in SelLines : log[1].pre[l] = LooseH2
    /\ \E l \in SelLines : log[1].pre[l] = Canonical(H2)

\* The number of lines of the selection at `level` in the document d
LevelCount(d, level) == Cardinality({l \in SelLines : parseLine(d[l]).level = level})

\* C27: with checkHierarchy on and allowHierarchyOverride off, a directional
\* operation over a selection that contains at most one H1 line does not leave
\* two or more H1 lines in the selection (a batch that promotes two or more lines
\* to H1 at once is blocked and reverted).
C27_AtMostOneH1 ==
    (/\ Completed /\ log[1].kind \in Directions
     /\ app /\ settings.checkHierarchy /\ ~settings.allowHierarchyOverride
     /\ LevelCount(log[1].pre, H1) <= 1)
        => LevelCount(doc, H1) <= 1

\* An operation that turns an H6 line into a paragraph with wrapAfterH6 and
\* checkHierarchy on: 'down' or 'cycle' over a selection that holds an H6 line,
\* or 'set Paragraph' on an H6 line by its number
C29_Case ==
    /\ Completed
    /\ app /\ settings.enableCycling /\ settings.wrapAfterH6 /\ settings.checkHierarchy
    /\ \/ log[1].kind \in {"down", "cycle"}
       \/ log[1].kind = "setLine" /\ log[1].arg = Paragraph
    /\ \E l \in Processed : PreLevel(l) = H6

\* C29: with wrapAfterH6 and checkHierarchy on, every operation that demotes an
\* H6 line raises an advisory general_warning: one notification is emitted and
\* the change commits.
C29_H6DemotionReminds ==
    C29_Case =>
        /\ Len(log[1].notices) = 1
        /\ log[1].notices[1].type = "general_warning"
        /\ \A l \in Processed : PreLevel(l) = H6 => doc[l] = Rewritten(l, Paragraph)

\* 'set Paragraph' by line number on a line at H1..H5 while the scope of the
\* check (the first selection without the line) holds a strictly deeper level
C30_Case ==
    /\ Completed /\ log[1].kind = "setLine" /\ log[1].arg = Paragraph
    /\ app /\ settings.wrapAfterH6
    /\ settings.checkHierarchy /\ ~settings.allowHierarchyOverride
    /\ PreLevel(log[1].line - 1) \in H1..H5
    /\ \E deeper \in levelsFromSelection(log[1].pre, selections, log[1].line) :
          deeper > PreLevel(log[1].line - 1)

\* C30: in the single-line path with wrapAfterH6 on, checkHierarchy on and
\* override off, setting an H1..H5 line to Paragraph while a strictly deeper
\* level is present in scope is blocked with a hierarchy_break issue and the line
\* is left unchanged.
C30_ParagraphCascadeBlocked ==
    C30_Case =>
        /\ ~log[1].executed
        /\ doc[log[1].line - 1] = log[1].pre[log[1].line - 1]
        /\ \E i \in 1..Len(log[1].notices) : log[1].notices[i].type = "hierarchy_break"

\* C34: getHeadingLevel and setHeadingLevel address lines with the same
\* numbering: after setHeadingLevel(L, n) commits a change on line number n,
\* getHeadingLevel(n) returns L.
C34_SetThenGetAgree ==
    (/\ Completed /\ log[1].kind = "setLine" /\ log[1].executed
     /\ doc # log[1].pre)
        => getHeadingLevel(doc, log[1].line) = {log[1].arg}

-----------------------------------------------------------------------------
(* Properties: directional operations under level limits (SpecClamp) *)

PostLevel(l) == parseLine(doc[l]).level

C12_Case == Completed /\ log[1].kind \in {"down", "cycle"} /\ ~settings.wrapAfterH6

C12_H6Kept == \A l \in LineNums : PreLevel(l) = H6 => doc[l] = log[1].pre[l]

C15_InLimits(level) ==
    level = Paragraph \/ (settings.minLevel <= level /\ level <= settings.maxLevel)

C15_Targets ==
    /\ \A k \in 1..Len(Plan) : C15_InLimits(Plan[k].targetLevel)
    /\ \A l \in LineNums : doc[l] # log[1].pre[l] => C15_InLimits(PostLevel(l))

C17_Monotone(l) ==
    IF log[1].kind = "up"
    THEN PostLevel(l) # Paragraph /\ PostLevel(l) <= PreLevel(l)
    ELSE \/ PostLevel(l) >= PreLevel(l)
         \/ (PreLevel(l) = H6 /\ PostLevel(l) = Paragraph /\ settings.wrapAfterH6)

C28_Case ==
    /\ Completed /\ log[1].kind \in Directions
    /\ ~settings.wrapAfterH6 /\ settings.checkHierarchy /\ ~settings.allowHierarchyOverride
    /\ LevelCount(log[1].pre, H6) >= 1

C28_NoMoreH6 == LevelCount(doc, H6) <= LevelCount(log[1].pre, H6)

\* C28 as stated: with wrapAfterH6 off, checkHierarchy on and
\* allowHierarchyOverride off, for every minLevel and maxLevel, no directional
\* operation over a selection that already contains an H6 line ends with more H6
\* lines in the selection than before.
C28_NoMoreH6ForAnyLimits == C28_Case => C28_NoMoreH6

\* C28: the same for every maxLevel and every minLevel below H6, on an engine
\* that has its host context.
C28_NoMoreH6BelowMinH6 == (C28_Case /\ app /\ settings.minLevel < H6) => C28_NoMoreH6

\* A demotion of an H5 line beside an H6 line, blocked and reverted with one
\* notification
C28_Witness ==
    /\ C28_Case /\ app /\ settings.minLevel < H6 /\ settings.maxLevel = H6
    /\ log[1].kind \in {"down", "cycle"}
    /\ \E l \in SelLines : PreLevel(l) = H5
    /\ doc = log[1].pre
    /\ Len(log[1].notices) = 1 /\ log[1].notices[1].type = "demotion_blocked"

\* The levels of the lines from the first to the last transformed line, in the
\* document as it stands
C32_LevelsAfter ==
    {PostLevel(l) : l \in Plan[1].lineNum..Plan[Len(Plan)].lineNum} \ {Paragraph}

C32_Advised == \E k \in 1..Len(Issues) : Issues[k].type = "general_warning"

C32_Blocking == \E k \in 1..Len(Issues) : Issues[k].type \in BlockingTypes

\* C32: in a batch that is analysed (host context present, checkHierarchy on)
\* and raises no blocking issue, a general_warning is raised exactly when, after
\* the apply step, the lines from the first to the last transformed line contain
\* both an H1 and an H2, or, with wrapAfterH6 off, both an H5 and an H6; the
\* operation then commits with one notification.
C32_AdvisoryIffPairPresent ==
    (IsBatch /\ log[1].batches[1].checked /\ settings.checkHierarchy /\ ~C32_Blocking)
        => /\ AllApplied
           /\ C32_Advised <=>
                 \/ {H1, H2} \subseteq C32_LevelsAfter
                 \/ ~settings.wrapAfterH6 /\ {H5, H6} \subseteq C32_LevelsAfter
           /\ C32_Advised => Len(log[1].notices) = 1 /\ log[1].notices[1].type = "general_warning"
           /\ ~C32_Advised => log[1].notices = <<>>

\* A demotion with wrapAfterH6 off that brings an H5 beside an H6 line the batch
\* does not transform: advised and committed
C32_Witness ==
    /\ IsBatch /\ log[1].batches[1].checked /\ settings.checkHierarchy /\ ~C32_Blocking
    /\ ~settings.wrapAfterH6 /\ ~settings.allowHierarchyOverride
    /\ C32_Advised /\ Len(Issues) = 1
    /\ {H5, H6} \subseteq C32_LevelsAfter
    /\ \E l \in SelLines : PreLevel(l) = H6 /\ doc[l] = log[1].pre[l]
    /\ doc # log[1].pre

-----------------------------------------------------------------------------
(* Properties: the level function and the formatter on their own (SpecPure) *)

Called(fn) == Len(log) = 1 /\ log[1].fn = fn

\* The level the ladder gives
C14_Table(level, direction, wrap) ==
    IF level = Paragraph THEN Paragraph
    ELSE IF direction = "up" THEN (IF level = H1 THEN H1 ELSE level - 1)
    ELSE IF level = H6 THEN (IF wrap THEN Paragraph ELSE H6)
    ELSE level + 1

\* C14: cycleHeading returns Paragraph for Paragraph; for 'up', H1 for H1 and
\* level-1 otherwise; for 'down' and 'cycle' alike, Paragraph or H6 for H6
\* according to wrapAfterH6 and level+1 otherwise.
C14_CycleHeadingTable ==
    Called("cycleHeading") =>
        log[1].result = C14_Table(log[1].currentLevel, log[1].direction, log[1].wrapAfterH6)

\* 'cycle' on H6 with wrap off stays at H6
C14_Witness ==
    /\ Called("cycleHeading")
    /\ log[1].currentLevel = H6 /\ log[1].direction = "cycle" /\ ~log[1].wrapAfterH6
    /\ log[1].result = H6

\* C18: for every line text t and every level L in H1..H6, the line
\* lineToText(parseLine(t), L) parses at level L.
C18_FormatThenParseGivesLevel ==
    (Called("lineToText") /\ log[1].newLevel \in H1..H6)
        => parseLine(log[1].result).level = log[1].newLevel

\* An indented list item whose heading has content that starts with '#',
\* rewritten at another heading level
C18_Witness ==
    /\ Called("lineToText") /\ log[1].newLevel \in H1..H6
    /\ log[1].parsed.level \notin {Paragraph, log[1].newLevel}
    /\ log[1].parsed.indent # <<>> /\ log[1].parsed.listMarker # <<>>
    /\ log[1].parsed.content # <<>> /\ log[1].parsed.content[1] = "#"
    /\ parseLine(log[1].result).level = log[1].newLevel

RECURSIVE CountHash(_)
CountHash(t) == IF t = <<>> THEN 0 ELSE (IF Head(t) = "#" THEN 1 ELSE 0) + CountHash(Tail(t))

StartsWith(t, prefix) ==
    Len(prefix) <= Len(t) /\ SubSeq(t, 1, Len(prefix)) = prefix

\* C19 as stated: for every parsed line p, lineToText(p, Paragraph) holds no '#'
\* and starts with p.indent followed by p.listMarker.
C19_ParagraphHasNoHash ==
    (Called("lineToText") /\ log[1].newLevel = Paragraph)
        => /\ CountHash(log[1].result) = 0
           /\ StartsWith(log[1].result, log[1].parsed.indent \o log[1].parsed.listMarker)

\* C19, amended: lineToText(p, Paragraph) starts with p.indent followed by
\* p.listMarker and holds exactly as many '#' as p.content does: no '#' of the
\* heading marker is left, none of the content is removed.
C19_ParagraphKeepsContentHashes ==
    (Called("lineToText") /\ log[1].newLevel = Paragraph)
        => /\ CountHash(log[1].result) = CountHash(log[1].parsed.content)
           /\ StartsWith(log[1].result, log[1].parsed.indent \o log[1].parsed.listMarker)

\* An indented list item with a heading whose content holds a '#', made a
\* paragraph
C19_Witness ==
    /\ Called("lineToText") /\ log[1].newLevel = Paragraph
    /\ log[1].parsed.level # Paragraph
    /\ log[1].parsed.indent # <<>> /\ log[1].parsed.listMarker # <<>>
    /\ CountHash(log[1].parsed.content) > 0
    /\ CountHash(log[1].result) < CountHash(log[1].text)

\* The pieces of a line, read off its text: where the leading whitespace, the
\* list marker, the '#' run and the whitespace after it end
C20_IndentEnd(t) == WsRun(t, 1)

C20_ListEnd(t) ==
    LET i == C20_IndentEnd(t)
    IN IF i < Len(t) /\ t[i + 1] \in {"-", "*", "+"} /\ WsRun(t, i + 2) > 0
       THEN i + 1 + WsRun(t, i + 2)
       ELSE i

C20_MarkerEnd(t) ==
    LET j == C20_ListEnd(t)
    IN j + HashRun(t, j + 1) + WsRun(t, j + HashRun(t, j + 1) + 1)

C20_Marker(level) == IF level = Paragraph THEN <<>> ELSE Hashes(level) \o <<" ">>

\* C20: for every heading line and every target level the transformed line is
\* the original's leading whitespace and list marker (with its trailing
\* spaces), the marker of the target level, and the original's trimmed content:
\* only the '#' run and the whitespace directly after it are replaced.
C20_OnlyMarkerChanges ==
    (Called("lineToText") /\ log[1].parsed.level # Paragraph)
        => log[1].result =
              SubSeq(log[1].text, 1, C20_ListEnd(log[1].text))
                  \o C20_Marker(log[1].newLevel)
                  \o TrimEnd(SubSeq(log[1].text, C20_MarkerEnd(log[1].text) + 1,
                                    Len(log[1].text)))

\* An indented list item with a heading, rewritten at another level
C20_Witness ==
    /\ Called("lineToText")
    /\ log[1].parsed.level \notin {Paragraph, log[1].newLevel}
    /\ log[1].newLevel # Paragraph
    /\ log[1].parsed.indent # <<>> /\ log[1].parsed.listMarker # <<>>
    /\ log[1].parsed.content # <<>>
    /\ log[1].result # log[1].text

\* C36: for every heading line text t, the transformation to Paragraph yields a
\* line that parses as Paragraph:
\* parseLine(lineToText(parseLine(t), Paragraph)).level = Paragraph.
C36_ParagraphParsesAsParagraph ==
    (Called("lineToText") /\ log[1].parsed.level # Paragraph /\ log[1].newLevel = Paragraph)
        => parseLine(log[1].result).level = Paragraph

\* C22: parseLine applied to a line whose '#' run is longer than 6 characters
\* returns level H6 (the level computed from the marker count is capped at H6).
C22_LongRunIsH6 ==
    (Called("lineToText") /\ HashRun(log[1].text, C20_ListEnd(log[1].text) + 1) > 6)
        => log[1].parsed.level = H6

-----------------------------------------------------------------------------
(* Properties: directional operations over lines of more than six '#' (SpecLong) *)

\* The '#' run of a line, where a heading marker would stand: after the leading
\* whitespace and the list marker
C21_Run(t) == HashRun(t, C20_ListEnd(t) + 1)

C21_LongRun(t) == C21_Run(t) > 6

\* The long run is followed by whitespace
C21_Marked(t) ==
    /\ C21_LongRun(t)
    /\ C20_ListEnd(t) + C21_Run(t) < Len(t)
    /\ IsSpace(t[C20_ListEnd(t) + C21_Run(t) + 1])

\* The line taken whole as the content of a paragraph
C21_Collapsed(t) ==
    parseLine(t) = [indent |-> <<>>, listMarker |-> <<>>, headingMarker |-> <<>>,
                    content |-> t, level |-> Paragraph]

C21_Kept ==
    (Completed /\ log[1].kind \in Directions)
        => \A l \in LineNums : C21_LongRun(log[1].pre[l]) => doc[l] = log[1].pre[l]

-----------------------------------------------------------------------------
(* Properties: 'cycle' issued repeatedly on one heading line (SpecLadder) *)

LadderLine == selections[1].head

C16_Next(level) == IF level = H6 THEN Paragraph ELSE level + 1

\* C16: with cycling enabled, wrapAfterH6 on, minLevel H1 and maxLevel H6, each
\* 'cycle' on a selection of one heading line moves the line one level deeper
\* (H1, ..., H6, Paragraph), the line is a Paragraph after at most 6
\* operations, and an operation on the Paragraph leaves the line as it is.
C16_CycleLadder ==
    \A k \in 1..Len(log) :
        LET pre  == parseLine(log[k].pre[LadderLine]).level
            post == parseLine(log[k].post[LadderLine]).level
        IN /\ pre # Paragraph => post = C16_Next(pre)
           /\ pre = Paragraph => log[k].post = log[k].pre
           /\ k >= 6 => post = Paragraph

-----------------------------------------------------------------------------
(* Properties: line-number operations under the debouncer (SpecDebounce) *)

\* The level of the line the k-th call is about, before the call
C23_Level(k) == parseLine(log[k].pre[log[k].line - 1]).level

\* The warning the k-th call raises, NoWarning when it raises none
C23_Raised(k) ==
    IF app /\ settings.checkHierarchy /\ canTransform(C23_Level(k), log[k].arg)
    THEN checkHierarchy(settings, log[k].pre, selections, C23_Level(k), log[k].arg, log[k].line)
    ELSE NoWarning

C23_Key(k) == warningKey(C23_Raised(k), log[k].line)

C23_Displayed(k) == log[k].notices # <<>>

\* The call replayed on the document it found, with a debouncer that holds the
\* key lwType since lwTime
C23_Replay(k, lwTime, lwType) ==
    setHeadingLevelLine(settings, app, log[k].pre, selections, log[k].arg, log[k].line,
                        lwTime, lwType, log[k].clock)

\* C23: in the single-line path, whether the transformation is executed or
\* blocked is the same when the warning is suppressed as a recent duplicate as
\* when it is displayed: each call leaves the document that the same call leaves
\* with an empty debouncer and with a debouncer that has just shown the same
\* key; the two replays differ, if at all, in the notification only. (Stated
\* of the latest call of every reachable state.)
C23_DebouncerKeepsDecision ==
    \A k \in {Len(log)} \ {0} :
        \A lwType \in {<<>>} \cup {C23_Key(k) : w \in {C23_Raised(k)} \ {NoWarning}} :
            /\ log[k].post = C23_Replay(k, log[k].clock, lwType).doc
            /\ log[k].executed = C23_Replay(k, log[k].clock, lwType).executed

\* A blocking warning shown at one call and suppressed at the next, both calls
\* blocked
C23_Witness ==
    /\ Len(log) = MaxLineOps
    /\ C23_Displayed(1) /\ ~log[1].executed
    /\ C23_Raised(2) # NoWarning /\ ~C23_Displayed(2) /\ ~log[2].executed
    /\ C23_Key(1) = C23_Key(2)
    /\ log[2].clock > log[1].clock

\* The last call before the k-th that displayed a notification, 0 when none did
C24_Stored(k) ==
    IF \E j \in 1..(k - 1) : C23_Displayed(j)
    THEN CHOOSE j \in 1..(k - 1) :
            C23_Displayed(j) /\ \A i \in (j + 1)..(k - 1) : ~C23_Displayed(i)
    ELSE 0

C24_Recent(k, j) ==
    j # 0 /\ C23_Key(j) = C23_Key(k) /\ log[k].clock - log[j].clock < DEBOUNCE_TIME

\* C24: in the single-line path a raised warning is not displayed if and only if
\* its key equals the key of the last displayed warning and less than 1500 ms
\* have passed since that warning was displayed; hence two displayed
\* notifications with the same key, with no different-key warning displayed
\* between them, are at least 1500 ms apart.
C24_SuppressedIffRecentDuplicate ==
    /\ \A k \in 1..Len(log) :
          C23_Raised(k) # NoWarning
              => (~C23_Displayed(k) <=> C24_Recent(k, C24_Stored(k)))
    /\ \A k \in 1..Len(log) : C23_Raised(k) = NoWarning => ~C23_Displayed(k)
    /\ \A j \in 1..Len(log), k \in 1..Len(log) :
          (/\ j < k /\ C23_Displayed(j) /\ C23_Displayed(k) /\ C23_Key(j) = C23_Key(k)
           /\ \A i \in (j + 1)..(k - 1) : ~(C23_Displayed(i) /\ C23_Key(i) # C23_Key(j)))
              => log[k].clock - log[j].clock >= DEBOUNCE_TIME

\* One warning displayed, raised again 1499 ms later and suppressed, raised again
\* 1500 ms after the first and displayed
C24_Witness ==
    /\ Len(log) = MaxLineOps
    /\ C23_Displayed(1) /\ C23_Raised(2) # NoWarning /\ ~C23_Displayed(2) /\ C23_Displayed(3)
    /\ C23_Key(1) = C23_Key(2) /\ C23_Key(2) = C23_Key(3)
    /\ log[2].clock = log[1].clock + DEBOUNCE_TIME - 1
    /\ log[3].clock = log[1].clock + DEBOUNCE_TIME

\* The last call so far that displayed a notification, 0 when none did
C38_LastDisplayed == C24_Stored(Len(log) + 1)

\* C38: the debouncer's stored (key, timestamp) pair changes only when a
\* notification is displayed: it is always the key and the time of the last
\* displayed warning (empty while none was displayed), whatever was raised and
\* suppressed since; so a warning whose key is the stored one and that is raised
\* 1500 ms or more after the last displayed one is displayed, however recently
\* the same warning was raised and suppressed.
C38_PairIsLastDisplayed ==
    /\ IF C38_LastDisplayed = 0
       THEN lastWarningType = <<>> /\ lastWarningTime = 0
       ELSE /\ lastWarningType = C23_Key(C38_LastDisplayed)
            /\ lastWarningTime = log[C38_LastDisplayed].clock
    /\ \A k \in 1..Len(log) :
          (/\ C23_Raised(k) # NoWarning
           /\ C24_Stored(k) # 0
           /\ log[k].clock - log[C24_Stored(k)].clock >= DEBOUNCE_TIME)
              => C23_Displayed(k)

\* A suppressed duplicate has left the stored time alone, and the same warning,
\* raised 1 ms after the suppressed one and 1500 ms after the displayed one, is
\* displayed and stored
C38_Witness ==
    /\ \E k \in 3..Len(log) :
          /\ C23_Displayed(k) /\ C24_Stored(k) = k - 2
          /\ C23_Raised(k - 1) # NoWarning /\ ~C23_Displayed(k - 1)
          /\ C23_Key(k) = C23_Key(k - 1) /\ C23_Key(k) = C23_Key(k - 2)
          /\ log[k].clock - log[k - 1].clock < DEBOUNCE_TIME
          /\ log[k - 1].clock > log[k - 2].clock
          /\ lastWarningTime = log[k].clock
          /\ lastWarningType = C23_Key(k)

-----------------------------------------------------------------------------
(* Properties: commands over the selection between line-number calls (SpecMixed) *)

C39_IsLineCall(k) == log[k].kind = "setLine"

\* The last line-number call before the k-th entry that displayed a
\* notification, 0 when none did
C39_Stored(k) ==
    IF \E j \in 1..(k - 1) : C39_IsLineCall(j) /\ C23_Displayed(j)
    THEN CHOOSE j \in 1..(k - 1) :
            /\ C39_IsLineCall(j) /\ C23_Displayed(j)
            /\ \A i \in (j + 1)..(k - 1) : ~(C39_IsLineCall(i) /\ C23_Displayed(i))
    ELSE 0

\* C39: batch (selection) operations neither read nor update the debouncer
\* state: the stored pair is always that of the last line-number call that
\* displayed a warning, whatever batches ran since; a line-number warning is
\* suppressed exactly when it repeats that call's key within 1500 ms; and every
\* batch that detects an issue emits its notification, however recently the
\* same one was emitted.
C39_BatchesBypassDebouncer ==
    /\ IF C39_Stored(Len(log) + 1) = 0
       THEN lastWarningType = <<>> /\ lastWarningTime = 0
       ELSE /\ lastWarningType = C23_Key(C39_Stored(Len(log) + 1))
            /\ lastWarningTime = log[C39_Stored(Len(log) + 1)].clock
    /\ \A k \in 1..Len(log) :
          IF C39_IsLineCall(k)
          THEN C23_Raised(k) # NoWarning
                  => (~C23_Displayed(k) <=> C24_Recent(k, C39_Stored(k)))
          ELSE \A i \in 1..Len(log[k].batches) :
                  log[k].batches[i].issues # <<>> => log[k].batches[i].notices # <<>>

\* A line-number warning is displayed; then one command over the selection
\* notifies the same issue twice at the same instant, and the stored pair is
\* still that of the line-number call
C39_Witness ==
    /\ Len(log) = MaxLineOps
    /\ C39_IsLineCall(1) /\ C23_Displayed(1)
    /\ ~C39_IsLineCall(2) /\ ~C39_IsLineCall(3)
    /\ log[2].kind = log[3].kind /\ log[2].arg = log[3].arg
    /\ log[2].notices # <<>> /\ log[3].notices = log[2].notices
    /\ now = StartTime
    /\ lastWarningTime = log[1].clock /\ lastWarningType = C23_Key(1)

\* A batch notification between a displayed line-number warning and its
\* duplicate: the duplicate is suppressed all the same
C39_WitnessSuppressed ==
    /\ Len(log) = MaxLineOps
    /\ C39_IsLineCall(1) /\ C23_Displayed(1)
    /\ ~C39_IsLineCall(2) /\ log[2].notices # <<>>
    /\ C39_IsLineCall(3) /\ C23_Raised(3) # NoWarning /\ ~C23_Displayed(3)
    /\ C23_Key(3) = C23_Key(1)
    /\ log[3].clock - log[1].clock < DEBOUNCE_TIME

-----------------------------------------------------------------------------
(* Properties: one command over two selections (SpecMulti) *)

\* C25: one call of cycleHeading or setHeadingLevel emits at most one
\* notification in total, also when the editor reports several selections.
C25_OneNoticePerCall ==
    (Completed /\ log[1].kind \in Directions \cup {"set"}) => Len(log[1].notices) <= 1

-----------------------------------------------------------------------------
(* Properties: line-number operations without a selection (SpecNoSelection) *)

\* C31: in the single-line path, when the editor reports no selection, the
\* rules are evaluated against the whole document: with checkHierarchy on and
\* allowHierarchyOverride off, setting a line to H1 while another line of the
\* document is H1 is blocked and the line is left unchanged.
C31_BlockedAgainstWholeDocument ==
    (/\ Completed /\ log[1].kind = "setLine" /\ log[1].arg = H1
     /\ selections = <<>>
     /\ app /\ settings.checkHierarchy /\ ~settings.allowHierarchyOverride
     /\ PreLevel(log[1].line - 1) \notin {Paragraph, H1}
     /\ \E l \in LineNums \ {log[1].line - 1} : PreLevel(l) = H1)
        => ~log[1].executed /\ doc = log[1].pre

-----------------------------------------------------------------------------
(* Properties: one batch with several issues (SpecNested) *)

C33_IsBlocking(k) == Issues[k].type \in BlockingTypes

C33_Reverted == ~log[1].batches[1].shouldContinue

\* C33: in the batch path every blocking issue of the issue list precedes every
\* general_warning; hence a directional batch with allowHierarchyOverride off is
\* reverted (every planned line has its original text again) if and only if at
\* least one blocking issue was detected, and otherwise stays applied.
C33_BlockingFirst ==
    IsBatch =>
        /\ \A i \in 1..Len(Issues), j \in 1..Len(Issues) :
              (i < j /\ C33_IsBlocking(j)) => C33_IsBlocking(i)
        /\ (log[1].kind \in Directions /\ ~settings.allowHierarchyOverride)
              => /\ C33_Reverted <=> \E k \in 1..Len(Issues) : C33_IsBlocking(k)
                 /\ C33_Reverted => AllOriginal
                 /\ ~C33_Reverted => AllApplied

\* A batch whose issue list holds blocking issues and, after them, an advisory;
\* the notification is the blocking one
C33_Witness ==
    /\ IsBatch /\ ~settings.allowHierarchyOverride
    /\ \E i \in 1..Len(Issues), j \in 1..Len(Issues) :
          i < j /\ C33_IsBlocking(i) /\ Issues[j].type = "general_warning"
    /\ Len(log[1].notices) = 1 /\ log[1].notices[1].type \in BlockingTypes

-----------------------------------------------------------------------------
(* Properties: one directional command repeated (SpecRepeat) *)

\* C35: for every settings combination and every document, repeating the same
\* directional operation on the same selection reaches, after at most 6
\* repetitions, a document that every further repetition leaves unchanged.
C35_FixedAfterSix ==
    \A k \in 1..Len(log) : k > 6 => log[k].post = log[k].pre

-----------------------------------------------------------------------------
(* Properties: one command over two selections that may overlap (SpecOverlap) *)

C37_Batch(i) == log[1].batches[i]

C37_Range(i) == startLineOf(selections[i])..endLineOf(selections[i])

C37_LevelBefore(i, l) == parseLine(C37_Batch(i).before[l]).level

\* The lines the operation takes from the i-th selection, read off the document
\* the i-th batch found
C37_Due(i) ==
    {l \in C37_Range(i) :
        /\ C26_Eligible(C37_LevelBefore(i, l))
        /\ C26_Target(C37_LevelBefore(i, l)) # C37_LevelBefore(i, l)}

C37_PlannedFromCurrent(i) ==
    /\ {C37_Batch(i).transformations[k].lineNum :
            k \in 1..Len(C37_Batch(i).transformations)} = C37_Due(i)
    /\ \A k \in 1..Len(C37_Batch(i).transformations) :
          /\ C37_Batch(i).transformations[k].currentLevel
                = C37_LevelBefore(i, C37_Batch(i).transformations[k].lineNum)
          /\ C37_Batch(i).transformations[k].targetLevel
                = C26_Target(C37_LevelBefore(i, C37_Batch(i).transformations[k].lineNum))

\* The document the i-th batch leaves: its planned lines rewritten when it
\* commits, the document it found when it is reverted
C37_After(i) ==
    [l \in LineNums |->
        IF C37_Batch(i).shouldContinue /\ l \in C37_Due(i)
        THEN lineToText(parseLine(C37_Batch(i).before[l]), C26_Target(C37_LevelBefore(i, l)))
        ELSE C37_Batch(i).before[l]]

\* C37: when the editor reports several selections, each one is planned,
\* applied, validated and committed or reverted as its own batch, in list order,
\* before the next one is planned: the second batch is planned from the document
\* the first one left, a revert gives back the document the batch found (the
\* edits committed for the earlier selection included), and a line covered by
\* two selections is transformed once per selection.
C37_OneBatchPerSelectionInOrder ==
    Completed =>
        /\ Len(log[1].batches) = Len(selections)
        /\ C37_Batch(1).before = log[1].pre
        /\ C37_Batch(2).before = C37_After(1)
        /\ doc = C37_After(2)
        /\ \A i \in 1..2 :
              /\ C37_Batch(i).startLine = startLineOf(selections[i])
              /\ C37_Batch(i).endLine = endLineOf(selections[i])
              /\ C37_PlannedFromCurrent(i)

\* The first batch commits a change on a line that the second selection covers
\* too; the second batch is reverted and the line keeps the first batch's edit
C37_Witness ==
    /\ Completed
    /\ C37_Batch(1).shouldContinue /\ ~C37_Batch(2).shouldContinue
    /\ C37_Due(2) # {}
    /\ \E l \in C37_Due(1) \cap C37_Range(2) :
          /\ doc[l] # log[1].pre[l]
          /\ doc[l] = C37_After(1)[l]

\* A line covered by both selections, transformed by both batches
C37_WitnessTwice ==
    /\ Completed
    /\ C37_Batch(1).shouldContinue /\ C37_Batch(2).shouldContinue
    /\ \E l \in C37_Due(1) \cap C37_Due(2) :
          /\ log[1].kind = "down"
          /\ parseLine(doc[l]).level = PreLevel(l) + 2

-----------------------------------------------------------------------------
(* Properties: operations issued back to back (SpecRace) *)

BurstDone == Len(log) = 2 /\ tasks = <<>> /\ log[1].done /\ log[2].done

\* The two operations run one after the other, each to its end
C5_Sequential ==
    runSelectionOp(settings, app,
        runSelectionOp(settings, app, log[1].pre, selections, log[1].kind, log[1].arg).doc,
        selections, log[2].kind, log[2].arg).doc

OpBlocked(k) ==
    Len(log[k].batches) = 1 /\ ~log[k].batches[1].shouldContinue

\* C5: two operations issued back to back without awaiting the first leave the
\* document that running them one after the other leaves, and when both were
\* blocked none of their edits is left in the document.
C5_BackToBackIsSequential ==
    BurstDone =>
        /\ doc = C5_Sequential
        /\ (OpBlocked(1) /\ OpBlocked(2)) => doc = log[1].pre

====
